---- MODULE Spec2Model ----
(***************************************************************************)
(* The Z.AI image gateway: the session record of ZImage (access token,     *)
(* exchange token, cache file), its refresh, and the Express handlers of   *)
(* index.js that sit on top of it.                                         *)
(*                                                                         *)
(* A JavaScript string that the code splits on '.' is modelled by the      *)
(* tuple of its segments; null/undefined is the empty tuple, the empty     *)
(* string is the tuple holding one empty segment.  A string the code       *)
(* slices by character index is a tuple of characters.                     *)
(***************************************************************************)
EXTENDS Integers, Sequences, FiniteSets, TLC

VARIABLES
    sessionToken,   \* ZImage.sessionToken
    chatToken,      \* ZImage.chatToken
    cacheFile,      \* .zimage_session_cache.json on disk
    now,            \* Date.now(), milliseconds
    server,         \* start(): "starting", then "listening", or "failed" when initialize rejected
    handler,        \* per client: the request in flight and its position
    processEnv,     \* process.env: TELEGRAM_BOT_TOKEN, TELEGRAM_CHAT_ID ("" when unset)
    pendingGenerations, \* bot.js: Map from request id to { prompt, chatId }
    currentChatId,  \* bot.js: the chat the images are forwarded to ("" when undefined)
    keyboards       \* Telegram: the callback data of the buttons the bot has put on display

vars == <<sessionToken, chatToken, cacheFile, now, server, handler,
          processEnv, pendingGenerations, currentChatId, keyboards>>

memory == <<sessionToken, chatToken, cacheFile>>

\* bot.js and what it shares with Telegram
botjs == <<processEnv, pendingGenerations, currentChatId, keyboards>>

\* bot.js as loaded without a bot token: startBot returns at once
BotSkipped ==
    /\ processEnv = [TELEGRAM_BOT_TOKEN |-> "", TELEGRAM_CHAT_ID |-> ""]
    /\ pendingGenerations = <<>>
    /\ currentChatId = ""
    /\ keyboards = {}

\* bot.js once startBot has registered its handlers
BotListening ==
    /\ processEnv = [TELEGRAM_BOT_TOKEN |-> "bot-token", TELEGRAM_CHAT_ID |-> ""]
    /\ pendingGenerations = <<>>
    /\ currentChatId = ""
    /\ keyboards = {}

-----------------------------------------------------------------------------
(* Bounds *)

\* Largest n a POST /v1/images/generations body carries.
MaxN == 5

Clients == {1, 2}

-----------------------------------------------------------------------------
(* JavaScript values *)

NULL == <<>>
EMPTY == <<"">>

\* !s for an optional string
Falsy(s) == s = NULL \/ s = EMPTY

JsNull == [kind |-> "null", num |-> 0, hasExp |-> FALSE, exp |-> 0]
JsNumber(n) == [kind |-> "number", num |-> n, hasExp |-> FALSE, exp |-> 0]
JsObject(hasExp, exp) == [kind |-> "object", num |-> 0, hasExp |-> hasExp, exp |-> exp]
JsonSyntaxError == [kind |-> "error", num |-> 0, hasExp |-> FALSE, exp |-> 0]

\* !v for a parsed JSON value
FalsyJson(v) == v.kind = "null" \/ (v.kind = "number" /\ v.num = 0)

\* !payload.exp : exp is undefined on anything but an object that has it
NoExp(v) == ~(v.kind = "object" /\ v.hasExp /\ v.exp # 0)

-----------------------------------------------------------------------------
(* Token codec *)

\* JSON.parse(Buffer.from(segment, 'base64').toString())
Base64JsonParse(seg) ==
    CASE seg = "eyJleHAiOjEwMDAwMCwic3ViIjoidTEiLCJjbGllbnRfaWQiOiJjIn0" -> JsObject(TRUE, 100000)
      [] seg = "eyJleHAiOjIwMDAwMCwic3ViIjoidTEiLCJjbGllbnRfaWQiOiJjIn0" -> JsObject(TRUE, 200000)
      [] seg = "eyJleHAiOjB9" -> JsObject(TRUE, 0)
      [] seg = "eyJzdWIiOiJ1MSJ9" -> JsObject(FALSE, 0)
      [] seg = "e30" -> JsObject(FALSE, 0)
      [] seg = "NQ" -> JsNumber(5)
      [] seg = "MA" -> JsNumber(0)
      [] seg = "bnVsbA" -> JsNull
      [] OTHER -> JsonSyntaxError

\* decodeJWT without the test of the number of segments: parts[1] is decoded
\* whenever there is one (Buffer.from(undefined) is a TypeError, caught).
decodeJWT_NoLengthCheck(token) ==
    IF token = NULL THEN JsNull
    ELSE IF Len(token) < 2 THEN JsNull
    ELSE LET payload == Base64JsonParse(token[2])
         IN  IF payload.kind = "error" THEN JsNull ELSE payload

\* decodeJWT rejecting every token whose third segment is not the expected
\* signature.
decodeJWT_Verified(token) ==
    IF token = NULL THEN JsNull
    ELSE IF Len(token) # 3 THEN JsNull
    ELSE IF token[3] # "sig" THEN JsNull
    ELSE LET payload == Base64JsonParse(token[2])
         IN  IF payload.kind = "error" THEN JsNull ELSE payload

\* null.split throws a TypeError, which the catch turns into null
decodeJWT(token) ==
    IF token = NULL THEN JsNull
    ELSE IF Len(token) # 3 THEN JsNull
    ELSE LET payload == Base64JsonParse(token[2])
         IN  IF payload.kind = "error" THEN JsNull ELSE payload

DayMs == 24 * 60 * 60 * 1000

\* sessionNeedsRefresh without its test of payload.exp: undefined * 1000 - now
\* is NaN, and NaN < 24h is false.
sessionNeedsRefreshAt_NoExpTest(token, t) ==
    IF Falsy(token) THEN TRUE
    ELSE LET payload == decodeJWT(token)
         IN  IF FalsyJson(payload) THEN TRUE
             ELSE IF NoExp(payload) THEN FALSE
             ELSE payload.exp * 1000 - t < DayMs

\* sessionNeedsRefresh with <= in place of <.
sessionNeedsRefreshAt_Inclusive(token, t) ==
    IF Falsy(token) THEN TRUE
    ELSE LET payload == decodeJWT(token)
         IN  IF FalsyJson(payload) \/ NoExp(payload) THEN TRUE
             ELSE payload.exp * 1000 - t <= DayMs

sessionNeedsRefreshAt(token, t) ==
    IF Falsy(token) THEN TRUE
    ELSE LET payload == decodeJWT(token)
         IN  IF FalsyJson(payload) \/ NoExp(payload) THEN TRUE
             ELSE payload.exp * 1000 - t < DayMs

\* isSessionValid with >= in place of >.
isSessionValidAt_AtExpiry(token, t) ==
    IF Falsy(token) THEN FALSE
    ELSE LET payload == decodeJWT(token)
         IN  IF FalsyJson(payload) \/ NoExp(payload) THEN FALSE
             ELSE payload.exp * 1000 >= t

isSessionValidAt(token, t) ==
    IF Falsy(token) THEN FALSE
    ELSE LET payload == decodeJWT(token)
         IN  IF FalsyJson(payload) \/ NoExp(payload) THEN FALSE
             ELSE payload.exp * 1000 > t

\* new Date(NaN).toISOString() throws RangeError: payload.exp * 1000 is NaN
\* whenever payload has no numeric exp
getSessionInfoAt(token, t) ==
    IF Falsy(token)
    THEN [threw |-> FALSE, valid |-> FALSE, error |-> "No session token provided", needsRefresh |-> FALSE]
    ELSE LET payload == decodeJWT(token)
         IN  IF FalsyJson(payload)
             THEN [threw |-> FALSE, valid |-> FALSE, error |-> "Invalid JWT format", needsRefresh |-> FALSE]
             ELSE IF ~(payload.kind = "object" /\ payload.hasExp)
             THEN [threw |-> TRUE, valid |-> FALSE, error |-> "Invalid time value", needsRefresh |-> FALSE]
             ELSE [threw |-> FALSE, valid |-> payload.exp * 1000 - t > 0, error |-> "",
                   needsRefresh |-> sessionNeedsRefreshAt(token, t)]

-----------------------------------------------------------------------------
(* The values the model draws from *)

T1 == <<"hdr", "eyJleHAiOjEwMDAwMCwic3ViIjoidTEiLCJjbGllbnRfaWQiOiJjIn0", "sig">>
T2 == <<"hdr", "eyJleHAiOjIwMDAwMCwic3ViIjoidTEiLCJjbGllbnRfaWQiOiJjIn0", "sig">>
TNoExp == <<"hdr", "eyJzdWIiOiJ1MSJ9", "sig">>
CT == <<"chat-token">>

\* T1 expires at 100000 s: it is fresh up to 13600000 ms, stale from 13600001 ms,
\* expired from 100000000 ms.  T2 (200000 s) is fresh at all three instants.
TimePoints == {13600000, 13600001, 100000000}

\* What a token-exchange answer or a POST /session body can carry.
Tokens == {T1, T2, TNoExp}

-----------------------------------------------------------------------------
(* Authentication (index.js) *)

BearerPrefix == <<"B", "e", "a", "r", "e", "r", " ">>
API_KEY == <<"s", "k", "-", "k", "e", "y">>

NoHeader == <<>>

Headers ==
    { NoHeader,
      BearerPrefix \o API_KEY,
      BearerPrefix \o <<"s", "k", "-", "k", "e", "z">>,
      BearerPrefix \o API_KEY \o <<" ">>,
      BearerPrefix,
      <<"b", "e", "a", "r", "e", "r", " ">> \o API_KEY,
      <<"B", "a", "s", "i", "c", " ">> \o API_KEY,
      API_KEY }

\* authHeader.startsWith('Bearer ')
StartsWith(s, prefix) ==
    /\ Len(s) >= Len(prefix)
    /\ SubSeq(s, 1, Len(prefix)) = prefix

\* authHeader.slice(7)
Slice(s, from) == SubSeq(s, from + 1, Len(s))

\* authenticate without the comparison of the key: any Bearer header passes.
authenticate_AnyBearer(authHeader) ==
    IF authHeader = NoHeader \/ ~StartsWith(authHeader, BearerPrefix)
    THEN "Missing API key"
    ELSE "next"

\* The middleware: "next" when the handler may run, else the 401 message.
authenticate(authHeader) ==
    IF authHeader = NoHeader \/ ~StartsWith(authHeader, BearerPrefix)
    THEN "Missing API key"
    ELSE IF Slice(authHeader, 7) # API_KEY
    THEN "Invalid API key"
    ELSE "next"

-----------------------------------------------------------------------------
(* Request mapping tables (index.js) *)

ratios == {"1:1", "3:4", "4:3", "16:9", "9:16", "21:9", "9:21"}
resolutions == {"1K", "2K"}

\* The property names every object literal inherits from Object.prototype:
\* table[name] is a function (truthy) for them, though the table has no such key.
ObjectPrototypeKeys == {"constructor", "toString", "valueOf", "hasOwnProperty"}

\* sizeToRatio[size]: "" when undefined, "function" for an inherited property
sizeToRatio(size) ==
    CASE size \in {"256x256", "512x512", "1024x1024"} -> "1:1"
      [] size \in {"1024x1792", "720x1280", "1080x1920"} -> "9:16"
      [] size \in {"1792x1024", "1280x720", "1920x1080"} -> "16:9"
      [] size \in ObjectPrototypeKeys -> "function"
      [] OTHER -> ""

\* const ratio = sizeToRatio[size] || '1:1'
RatioOfSize(size) == IF sizeToRatio(size) = "" THEN "1:1" ELSE sizeToRatio(size)

\* Model names are character tuples: the handler searches them for 'hd'.
M_zimage == <<"z", "-", "i", "m", "a", "g", "e">>
M_zimagepro == <<"z", "-", "i", "m", "a", "g", "e", "-", "p", "r", "o">>
M_dalle3 == <<"d", "a", "l", "l", "-", "e", "-", "3">>
M_dalle2 == <<"d", "a", "l", "l", "-", "e", "-", "2">>
M_default == <<"z", "-", "a", "i", "-", "i", "m", "a", "g", "e">>
M_custom == <<"s", "d", "x", "l">>
M_customhd == <<"m", "y", "-", "h", "d">>

M_constructor == <<"c", "o", "n", "s", "t", "r", "u", "c", "t", "o", "r">>

\* modelMapping[model].resolution: "" when modelMapping[model] is undefined,
\* "undefined" when it is an inherited function, which has no resolution
modelMapping(model) ==
    CASE model = M_zimagepro -> "2K"
      [] model = M_zimage -> "1K"
      [] model = M_dalle3 -> "2K"
      [] model = M_dalle2 -> "1K"
      [] model = M_constructor -> "undefined"
      [] OTHER -> ""

qualityToResolution(quality) ==
    CASE quality \in {"standard", "low"} -> "1K"
      [] quality \in {"hd", "high"} -> "2K"
      [] OTHER -> ""

\* model.includes(sub)
Includes(s, sub) ==
    \E i \in 1..(Len(s) - Len(sub) + 1) : SubSeq(s, i, i + Len(sub) - 1) = sub

\* The resolution with the quality consulted before the model table.
ResolutionOf_QualityFirst(model, quality) ==
    IF qualityToResolution(quality) # "" THEN qualityToResolution(quality)
    ELSE IF modelMapping(model) \notin {"", "undefined"} THEN modelMapping(model)
    ELSE "1K"

\* The resolution handed to ZImage.generate ("" for undefined, which generate
\* replaces by its default)
ResolutionOf(model, quality) ==
    IF modelMapping(model) = "undefined" THEN ""
    ELSE IF modelMapping(model) # "" THEN modelMapping(model)
    ELSE IF Includes(model, <<"h", "d">>) \/ quality = "hd" \/ quality = "high" THEN "2K"
    ELSE IF qualityToResolution(quality) # "" THEN qualityToResolution(quality)
    ELSE "1K"

\* The loop bound without its cap.
Min_Uncapped(a, b) == a

Min(a, b) == IF a < b THEN a ELSE b

-----------------------------------------------------------------------------
(* Upstream answers *)

\* A redirect URL: present or not, parseable by new URL() or not, and its query.
NoUrl == [present |-> FALSE, wellFormed |-> FALSE, query |-> <<>>]
Url(query) == [present |-> TRUE, wellFormed |-> TRUE, query |-> query]
BadUrl == [present |-> TRUE, wellFormed |-> FALSE, query |-> <<>>]

\* new URL(u).searchParams.get(key): the first value under key, or null
searchParamsGet(u, key) ==
    LET hits == {i \in 1..Len(u.query) : u.query[i][1] = key}
    IN  IF hits = {} THEN NULL
        ELSE u.query[CHOOSE i \in hits : \A j \in hits : i <= j][2]

\* What POST /api/oauth/authorize can answer: a transport or HTTP error, a body
\* that is not an object, or an object with or without redirect_url.
AuthorizeAnswers ==
    { [ok |-> FALSE, data |-> FALSE, redirect_url |-> NoUrl],
      [ok |-> TRUE, data |-> FALSE, redirect_url |-> NoUrl],
      [ok |-> TRUE, data |-> TRUE, redirect_url |-> NoUrl],
      [ok |-> TRUE, data |-> TRUE, redirect_url |-> BadUrl],
      [ok |-> TRUE, data |-> TRUE, redirect_url |-> Url(<<<<"state", <<"s">>>>>>)],
      [ok |-> TRUE, data |-> TRUE, redirect_url |-> Url(<<<<"code", <<"abc">>>>, <<"state", <<"s">>>>>>)] }

\* What POST /api/v1/z-image/auth can answer.
ExchangeAnswers ==
    { [ok |-> FALSE, token |-> NULL], [ok |-> TRUE, token |-> NULL] }
    \cup { [ok |-> TRUE, token |-> t] : t \in {T2, TNoExp} }

\* What POST /api/proxy/images/generate can answer: an error, or a body holding
\* its image URL in one of these places (or nowhere).
GenerateAnswers == {"error", "data[0].url", "data[0].image_url", "data[0]", "url", "image_url", "none"}

-----------------------------------------------------------------------------
(* JSON documents and the search for an image URL (bot.js)                 *)

\* A parsed JSON value: its type, the characters of a string, and the members
\* of an object (in insertion order) or of an array (by index).
JNull == [t |-> "null", s |-> <<>>, members |-> <<>>]
JFalse == [t |-> "false", s |-> <<>>, members |-> <<>>]
JTrue == [t |-> "true", s |-> <<>>, members |-> <<>>]
\* a number other than 0
JNumber == [t |-> "number", s |-> <<>>, members |-> <<>>]
JString(chars) == [t |-> "string", s |-> chars, members |-> <<>>]
JObject(members) == [t |-> "object", s |-> <<>>, members |-> members]
JArray(members) == [t |-> "array", s |-> <<>>, members |-> members]

\* !v
JFalsy(v) == v.t \in {"null", "false"} \/ (v.t = "string" /\ v.s = <<>>)

\* obj[key], null standing for undefined as well
JGet(obj, key) ==
    LET hits == {i \in 1..Len(obj.members) : obj.members[i].k = key}
    IN  IF hits = {} THEN JNull ELSE obj.members[CHOOSE i \in hits : TRUE].v

\* A key that is an array index ("0", "1", ...): its number, -1 for any other key
KeyIndex(k) ==
    CASE k = "0" -> 0
      [] k = "1" -> 1
      [] k = "2" -> 2
      [] OTHER -> 0 - 1

\* The positions i of members, in increasing order of KeyIndex(members[i].k)
RECURSIVE ByIndex(_, _)
ByIndex(members, positions) ==
    IF positions = {} THEN <<>>
    ELSE LET first == CHOOSE i \in positions :
                        \A j \in positions : KeyIndex(members[i].k) <= KeyIndex(members[j].k)
         IN  <<members[first].v>> \o ByIndex(members, positions \ {first})

\* for (const key in obj): the values obj[key] in enumeration order, which is
\* the integer keys in ascending order, then the other keys in insertion order
ForIn(obj) ==
    LET m == obj.members
        ints == {i \in 1..Len(m) : KeyIndex(m[i].k) >= 0}
        rest == SelectSeq(m, LAMBDA e : KeyIndex(e.k) < 0)
    IN  ByIndex(m, ints) \o [i \in 1..Len(rest) |-> rest[i].v]

Lower(c) ==
    CASE c = "A" -> "a"
      [] c = "B" -> "b"
      [] c = "C" -> "c"
      [] c = "D" -> "d"
      [] c = "E" -> "e"
      [] c = "F" -> "f"
      [] c = "G" -> "g"
      [] c = "H" -> "h"
      [] c = "I" -> "i"
      [] c = "J" -> "j"
      [] c = "K" -> "k"
      [] c = "L" -> "l"
      [] c = "M" -> "m"
      [] c = "N" -> "n"
      [] c = "O" -> "o"
      [] c = "P" -> "p"
      [] c = "Q" -> "q"
      [] c = "R" -> "r"
      [] c = "S" -> "s"
      [] c = "T" -> "t"
      [] c = "U" -> "u"
      [] c = "V" -> "v"
      [] c = "W" -> "w"
      [] c = "X" -> "x"
      [] c = "Y" -> "y"
      [] c = "Z" -> "z"
      [] OTHER -> c
\* s.toLowerCase(), for the /i flag of the pattern
ToLower(s) == [i \in 1..Len(s) |-> Lower(s[i])]

HttpPrefix == <<"h", "t", "t", "p", ":", "/", "/">>
HttpsPrefix == <<"h", "t", "t", "p", "s", ":", "/", "/">>
AssetPath == <<"/", "z", "_", "i", "m", "a", "g", "e", "/">>
ImageExtensions ==
    { <<".", "p", "n", "g">>, <<".", "j", "p", "g">>, <<".", "j", "p", "e", "g">>,
      <<".", "w", "e", "b", "p">> }

\* s.match(/^https?:\/\/.*\.(png|jpg|jpeg|webp)/i)
MatchesImageUrl(s) ==
    LET l == ToLower(s)
    IN  \/ StartsWith(l, HttpPrefix) /\ \E ext \in ImageExtensions : Includes(Slice(l, 7), ext)
        \/ StartsWith(l, HttpsPrefix) /\ \E ext \in ImageExtensions : Includes(Slice(l, 8), ext)

\* obj.url && typeof obj.url === 'string' && (startsWith('http') || startsWith('/'))
QualifyingUrl(url) ==
    /\ ~JFalsy(url)
    /\ url.t = "string"
    /\ StartsWith(url.s, <<"h", "t", "t", "p">>) \/ StartsWith(url.s, <<"/">>)

RECURSIVE findImageUrl(_)
RECURSIVE FirstFound(_)

\* The loop over the properties: the first truthy result of the recursion
FirstFound(values) ==
    IF values = <<>> THEN JNull
    ELSE LET found == findImageUrl(Head(values))
         IN  IF ~JFalsy(found) THEN found ELSE FirstFound(Tail(values))

findImageUrl(obj) ==
    IF JFalsy(obj) THEN JNull
    ELSE IF obj.t = "string"
    THEN (IF MatchesImageUrl(obj.s) \/ Includes(obj.s, AssetPath) THEN obj ELSE JNull)
    ELSE IF obj.t \in {"object", "array"}
    THEN (IF QualifyingUrl(JGet(obj, "url")) THEN JGet(obj, "url")
          ELSE IF ~JFalsy(JGet(obj, "image_url")) THEN JGet(obj, "image_url")
          ELSE FirstFound(ForIn(obj)))
    ELSE JNull

\* The answers of the upstream generate endpoint tried, each with the value the
\* search yields when its rules are applied in priority order, depth first,
\* taking the properties of an object in insertion order.
JsonDocs ==
    { [doc |-> JObject(<<[k |-> "url", v |-> JString(<<"h", "t", "t", "p", ":", "/", "/", "o", "s", "s", "-", "c", "n", "/", "i">>)]>>),
       expect |-> JString(<<"h", "t", "t", "p", ":", "/", "/", "o", "s", "s", "-", "c", "n", "/", "i">>)],
      [doc |-> JNull,
       expect |-> JNull],
      [doc |-> JFalse,
       expect |-> JNull],
      [doc |-> JNumber,
       expect |-> JNull],
      [doc |-> JString(<<>>),
       expect |-> JNull],
      [doc |-> JString(<<"h", "t", "t", "p", "s", ":", "/", "/", "h", "/", "p", "/", "i", ".", "j", "p", "g">>),
       expect |-> JString(<<"h", "t", "t", "p", "s", ":", "/", "/", "h", "/", "p", "/", "i", ".", "j", "p", "g">>)],
      [doc |-> JString(<<"H", "T", "T", "P", ":", "/", "/", "H", "/", "I", ".", "P", "N", "G", "?", "x">>),
       expect |-> JString(<<"H", "T", "T", "P", ":", "/", "/", "H", "/", "I", ".", "P", "N", "G", "?", "x">>)],
      [doc |-> JString(<<"/", "z", "_", "i", "m", "a", "g", "e", "/", "a">>),
       expect |-> JString(<<"/", "z", "_", "i", "m", "a", "g", "e", "/", "a">>)],
      [doc |-> JString(<<"n", "o", "t", " ", "a", " ", "u", "r", "l">>),
       expect |-> JNull],
      [doc |-> JString(<<"h", "t", "t", "p", ":", "/", "/", "h", "/", "i", ".", "g", "i", "f">>),
       expect |-> JNull],
      [doc |-> JString(<<"f", "t", "p", ":", "/", "/", "h", "/", "i", ".", "p", "n", "g">>),
       expect |-> JNull],
      [doc |-> JObject(<<[k |-> "foo", v |-> JString(<<"n", "o", "t", " ", "a", " ", "u", "r", "l">>)]>>),
       expect |-> JNull],
      [doc |-> JObject(<<[k |-> "a", v |-> JObject(<<[k |-> "b", v |-> JObject(<<[k |-> "url", v |-> JString(<<"h", "t", "t", "p", ":", "/", "/", "x", "/", "y", ".", "p", "n", "g">>)]>>)]>>)]>>),
       expect |-> JString(<<"h", "t", "t", "p", ":", "/", "/", "x", "/", "y", ".", "p", "n", "g">>)],
      [doc |-> JObject(<<[k |-> "image_url", v |-> JString(<<"i", "1">>)], [k |-> "url", v |-> JString(<<"/", "u">>)]>>),
       expect |-> JString(<<"/", "u">>)],
      [doc |-> JObject(<<[k |-> "url", v |-> JString(<<"f", "t", "p", ":", "/", "/", "u">>)], [k |-> "image_url", v |-> JString(<<"i", "1">>)]>>),
       expect |-> JString(<<"i", "1">>)],
      [doc |-> JObject(<<[k |-> "a", v |-> JObject(<<[k |-> "url", v |-> JString(<<"h", "t", "t", "p", ":", "/", "/", "x", "/", "d", "e", "e", "p", ".", "p", "n", "g">>)]>>)], [k |-> "url", v |-> JString(<<"/", "t", "o", "p">>)]>>),
       expect |-> JString(<<"/", "t", "o", "p">>)],
      [doc |-> JObject(<<[k |-> "a", v |-> JObject(<<[k |-> "url", v |-> JString(<<"h", "t", "t", "p", ":", "/", "/", "x", "/", "d", "e", "e", "p", ".", "p", "n", "g">>)]>>)], [k |-> "image_url", v |-> JString(<<"i", "1">>)]>>),
       expect |-> JString(<<"i", "1">>)],
      [doc |-> JObject(<<[k |-> "a", v |-> JString(<<"x">>)], [k |-> "b", v |-> JString(<<"h", "t", "t", "p", ":", "/", "/", "x", "/", "1", ".", "p", "n", "g">>)], [k |-> "c", v |-> JString(<<"h", "t", "t", "p", ":", "/", "/", "x", "/", "2", ".", "p", "n", "g">>)]>>),
       expect |-> JString(<<"h", "t", "t", "p", ":", "/", "/", "x", "/", "1", ".", "p", "n", "g">>)],
      [doc |-> JObject(<<[k |-> "b", v |-> JString(<<"h", "t", "t", "p", ":", "/", "/", "x", "/", "b", ".", "p", "n", "g">>)], [k |-> "1", v |-> JString(<<"h", "t", "t", "p", ":", "/", "/", "x", "/", "1", ".", "p", "n", "g">>)]>>),
       expect |-> JString(<<"h", "t", "t", "p", ":", "/", "/", "x", "/", "b", ".", "p", "n", "g">>)],
      [doc |-> JObject(<<[k |-> "b", v |-> JObject(<<[k |-> "k", v |-> JString(<<"h", "t", "t", "p", ":", "/", "/", "x", "/", "b", ".", "w", "e", "b", "p">>)]>>)], [k |-> "0", v |-> JArray(<<[k |-> "0", v |-> JString(<<"x">>)], [k |-> "1", v |-> JString(<<"/", "z", "_", "i", "m", "a", "g", "e", "/", "0">>)]>>)]>>),
       expect |-> JString(<<"h", "t", "t", "p", ":", "/", "/", "x", "/", "b", ".", "w", "e", "b", "p">>)],
      [doc |-> JObject(<<[k |-> "data", v |-> JArray(<<[k |-> "0", v |-> JObject(<<[k |-> "url", v |-> JNumber], [k |-> "u", v |-> JString(<<"h", "t", "t", "p", ":", "/", "/", "x", "/", "d", ".", "j", "p", "e", "g">>)]>>)]>>)]>>),
       expect |-> JString(<<"h", "t", "t", "p", ":", "/", "/", "x", "/", "d", ".", "j", "p", "e", "g">>)],
      [doc |-> JObject(<<[k |-> "url", v |-> JString(<<>>)], [k |-> "image_url", v |-> JString(<<>>)], [k |-> "x", v |-> JTrue]>>),
       expect |-> JNull],
      [doc |-> JArray(<<[k |-> "0", v |-> JString(<<"x">>)], [k |-> "1", v |-> JString(<<"h", "t", "t", "p", ":", "/", "/", "x", "/", "a", "r", "r", ".", "p", "n", "g">>)]>>),
       expect |-> JString(<<"h", "t", "t", "p", ":", "/", "/", "x", "/", "a", "r", "r", ".", "p", "n", "g">>)],
      [doc |-> JObject(<<[k |-> "image_url", v |-> JNumber]>>),
       expect |-> JNumber],
      [doc |-> JObject(<<[k |-> "a", v |-> JObject(<<[k |-> "image_url", v |-> JObject(<<[k |-> "k", v |-> JString(<<"v">>)]>>)]>>)]>>),
       expect |-> JObject(<<[k |-> "k", v |-> JString(<<"v">>)]>>)] }

-----------------------------------------------------------------------------
(* A handler: one request (or library call) in flight *)

\* The state of a generateAndSend call of the Telegram bot (bot.js): the
\* upstream answer searched and what the search found, the headers of the GET
\* requests of the download and how they ended, and the Telegram calls made.
NoBot ==
    [input |-> [doc |-> JNull, expect |-> JNull], searched |-> FALSE, found |-> JNull,
     long |-> FALSE, gets |-> <<>>, first |-> "none", retry |-> "none",
     download |-> "none", photos |-> 0, documents |-> 0,
     edits |-> 0, notice |-> "none", outcome |-> "none"]


NoNet == [authorize |-> 0, exchange |-> 0, generate |-> 0, list |-> 0, get |-> 0]

\* History of the latest ensureSession call of the handler.
NoEs == [entered |-> FALSE, badOnEntry |-> FALSE, badAtCheck |-> FALSE,
         refreshCalls |-> 0, refreshed |-> "none", validAfter |-> FALSE,
         outcome |-> "none"]

\* History of the latest refreshSession call of the handler (forgotten when it
\* enters ensureSession again).
NoRf == [called |-> FALSE, chatAbsent |-> FALSE, redirect |-> "none",
         exchanged |-> "none", returned |-> "none", net |-> 0,
         tokenBefore |-> NULL, tokenKept |-> TRUE,
         cacheBefore |-> [state |-> "missing", sessionToken |-> NULL, chatToken |-> NULL],
         cacheKept |-> TRUE]

Idle ==
    [pc |-> "idle", ep |-> "", header |-> NoHeader,
     prompt |-> "", ratio |-> "", resolution |-> "", n |-> 0, i |-> 0,
     results |-> 0, noUrl |-> FALSE,
     token |-> NULL, chat |-> NULL,
     authCode |-> NULL, snap |-> [sessionToken |-> NULL, chatToken |-> NULL],
     status |-> 0, ctype |-> "", envelope |-> "", error |-> "",
     net |-> NoNet, es |-> NoEs, rf |-> NoRf,
     infoThrew |-> FALSE, mutated |-> FALSE, bot |-> NoBot]

Request(ep, header) == [Idle EXCEPT !.ep = ep, !.header = header]

HttpEndpoints ==
    {"GET /health", "GET /v1/models", "POST /v1/images/generations", "GET /options",
     "GET /session", "POST /session", "POST /session/refresh", "POST /generate",
     "GET /images"}

\* res.status(status).json(body)
Respond(h, status, envelope, error) ==
    [h EXCEPT !.pc = "done", !.status = status, !.ctype = "json",
              !.envelope = envelope, !.error = error]

\* An exception that leaves a route handler without a try/catch.  A synchronous
\* handler's throw is caught by the router and answered by the default error
\* handler: 500 with an HTML body.  A rejected async handler is forwarded the same
\* way by a router that awaits handlers and is left unanswered by one that does not.
Escapes(h, error) ==
    { [h EXCEPT !.pc = "done", !.status = 500, !.ctype = "html", !.envelope = "none",
                !.error = error] }
    \cup (IF h.ep = "GET /health"
          THEN { [h EXCEPT !.pc = "hung", !.error = error] }
          ELSE {})

\* The catch block of generateAndSend logging the error and nothing more.
BotCatch_LogOnly(h, error) ==
    [h EXCEPT !.pc = "done", !.error = error, !.bot.outcome = "failed"]

\* The catch block of generateAndSend: the status message is edited into the
\* failure notice (the call is not awaited).
BotCatch(h, error) ==
    [h EXCEPT !.pc = "edit", !.error = error,
              !.bot.outcome = "failed", !.bot.edits = @ + 1]

\* The catch block of the route handler or of generateAndSend (or, for a library
\* call, the rejection of the returned promise).
HandlerCatch(h, error) ==
    CASE h.ep = "POST /v1/images/generations" -> Respond(h, 500, "error.message", error)
      [] h.ep = "generateAndSend" -> BotCatch(h, error)
      [] h.ep \in {"POST /generate", "GET /images", "POST /session", "POST /session/refresh"} ->
            Respond(h, 500, "success.error", error)
      [] OTHER -> [h EXCEPT !.pc = "done", !.error = error]

-----------------------------------------------------------------------------
(* ZImage: the code that runs between two awaits, as a function of the     *)
(* handler h and of the memory it reads (token, chat, t = now, cache).     *)

\* ZImage.generate once ensureSession has resolved, up to the POST
GenerateBody(h) ==
    LET ratio == IF h.ratio = "" THEN "1:1" ELSE h.ratio
        resolution == IF h.resolution = "" THEN "1K" ELSE h.resolution
    IN  IF ratio \notin ratios THEN HandlerCatch(h, "Invalid ratio")
        ELSE IF resolution \notin resolutions THEN HandlerCatch(h, "Invalid resolution")
        ELSE [h EXCEPT !.pc = "generate", !.net.generate = @ + 1]

\* ZImage.list once ensureSession has resolved, up to the GET
ListBody(h) == [h EXCEPT !.pc = "list", !.net.list = @ + 1]

\* ZImage.get once ensureSession has resolved, up to the GET
GetBody(h) == [h EXCEPT !.pc = "get", !.net.get = @ + 1]

\* ensureSession resolves: its caller goes on
EnsureReturns(h) ==
    LET h2 == [h EXCEPT !.es.outcome = "ok"]
    IN  IF h.ep = "GET /images" THEN ListBody(h2)
        ELSE IF h.ep = "get" THEN GetBody(h2)
        ELSE GenerateBody(h2)

\* ensureSession with its failure swallowed: the caller goes on to its request.
EnsureThrows_Swallowed(h) ==
    LET h2 == [h EXCEPT !.es.outcome = "throw"]
    IN  IF h.ep = "GET /images" THEN ListBody(h2)
        ELSE IF h.ep = "get" THEN GetBody(h2)
        ELSE GenerateBody(h2)

\* ensureSession throws: its caller rejects, the route's catch answers
EnsureThrows(h) ==
    HandlerCatch([h EXCEPT !.es.outcome = "throw"], "Session expired")

\* initialize returns getSessionInfo(), and start() calls it again
InitializeReturns(h, token, t) ==
    IF getSessionInfoAt(token, t).threw
    THEN [h EXCEPT !.pc = "done", !.error = "Invalid time value", !.infoThrew = TRUE]
    ELSE [h EXCEPT !.pc = "done"]

\* AfterRefresh with ensureSession throwing on every failed refresh, whether or
\* not the token is still valid.
AfterRefresh_ThrowOnFailure(h, result, token, t) ==
    CASE h.ep = "POST /session/refresh" ->
            IF ~result THEN Respond(h, 500, "success.error", "Refresh failed")
            ELSE IF getSessionInfoAt(token, t).threw
            THEN HandlerCatch([h EXCEPT !.infoThrew = TRUE], "Invalid time value")
            ELSE Respond(h, 200, "success", "")
      [] h.ep = "initialize" -> InitializeReturns(h, token, t)
      [] OTHER ->
            LET h2 == [h EXCEPT !.es.refreshed = IF result THEN "true" ELSE "false",
                                !.es.validAfter = isSessionValidAt(token, t)]
            IN  IF ~result THEN EnsureThrows(h2) ELSE EnsureReturns(h2)

\* The statement after `await this.refreshSession()` in each caller.
AfterRefresh(h, result, token, t) ==
    CASE h.ep = "POST /session/refresh" ->
            IF ~result THEN Respond(h, 500, "success.error", "Refresh failed")
            ELSE IF getSessionInfoAt(token, t).threw
            THEN HandlerCatch([h EXCEPT !.infoThrew = TRUE], "Invalid time value")
            ELSE Respond(h, 200, "success", "")
      [] h.ep = "initialize" -> InitializeReturns(h, token, t)
      [] OTHER ->
            LET h2 == [h EXCEPT !.es.refreshed = IF result THEN "true" ELSE "false",
                                !.es.validAfter = isSessionValidAt(token, t)]
            IN  IF ~result /\ ~isSessionValidAt(token, t)
                THEN EnsureThrows(h2)
                ELSE EnsureReturns(h2)

\* refreshSession returns result
RefreshReturns(h, result, token, t, cache) ==
    AfterRefresh([h EXCEPT !.rf.returned = IF result THEN "true" ELSE "false",
                           !.rf.tokenKept = (token = h.rf.tokenBefore),
                           !.rf.cacheKept = (cache = h.rf.cacheBefore),
                           !.rf.tokenBefore = NULL, !.rf.cacheBefore = NoRf.cacheBefore],
                 result, token, t)

\* refreshSession without its try/catch: the exception reaches the caller.
RefreshCatch_Rethrow(h, token, t, cache) ==
    HandlerCatch([h EXCEPT !.rf.returned = "threw"], "refresh threw")

\* The catch block of refreshSession
RefreshCatch(h, token, t, cache) == RefreshReturns(h, FALSE, token, t, cache)

\* refreshSession without its guard on the chat token.
RefreshStart_NoGuard(h, token, chat, t, cache) ==
    [h EXCEPT !.rf = [NoRf EXCEPT !.called = TRUE, !.chatAbsent = Falsy(chat),
                                  !.tokenBefore = token, !.cacheBefore = cache,
                                  !.net = 1],
              !.es.refreshCalls = @ + 1,
              !.pc = "authorize", !.net.authorize = @ + 1]

\* refreshSession made single-flight: while the refresh of another request is
\* in flight, none is started and ensureSession goes on as after a refresh.
RefreshStart_SingleFlight(h, token, chat, t, cache) ==
    IF \E d \in Clients : handler[d].pc \in {"authorize", "exchange", "write"}
    THEN EnsureReturns(h)
    ELSE LET h2 == [h EXCEPT !.rf = [NoRf EXCEPT !.called = TRUE, !.chatAbsent = Falsy(chat),
                                                 !.tokenBefore = token, !.cacheBefore = cache],
                             !.es.refreshCalls = @ + 1]
         IN  IF Falsy(chat)
             THEN RefreshReturns(h2, FALSE, token, t, cache)
             ELSE [h2 EXCEPT !.pc = "authorize", !.net.authorize = @ + 1, !.rf.net = @ + 1]

\* refreshSession up to its first await
RefreshStart(h, token, chat, t, cache) ==
    LET h2 == [h EXCEPT !.rf = [NoRf EXCEPT !.called = TRUE, !.chatAbsent = Falsy(chat),
                                            !.tokenBefore = token, !.cacheBefore = cache],
                        !.es.refreshCalls = @ + 1]
    IN  IF Falsy(chat)
        THEN RefreshReturns(h2, FALSE, token, t, cache)
        ELSE [h2 EXCEPT !.pc = "authorize", !.net.authorize = @ + 1, !.rf.net = @ + 1]

\* ensureSession refreshing whatever the state of the token.
EnsureCheck_AlwaysRefresh(h, token, chat, t, cache) ==
    LET bad == ~isSessionValidAt(token, t) \/ sessionNeedsRefreshAt(token, t)
        h2 == [h EXCEPT !.es.badAtCheck = bad]
    IN  RefreshStart(h2, token, chat, t, cache)

\* ensureSession from its staleness test on
EnsureCheck(h, token, chat, t, cache) ==
    LET bad == ~isSessionValidAt(token, t) \/ sessionNeedsRefreshAt(token, t)
        h2 == [h EXCEPT !.es.badAtCheck = bad]
    IN  IF bad THEN RefreshStart(h2, token, chat, t, cache) ELSE EnsureReturns(h2)

\* ensureSession from its entry
ensureSession(h, token, chat, t, cache) ==
    LET bad == ~isSessionValidAt(token, t) \/ sessionNeedsRefreshAt(token, t)
        h2 == [h EXCEPT !.es = [NoEs EXCEPT !.entered = TRUE, !.badOnEntry = bad],
                        !.rf = NoRf]
    IN  IF Falsy(token)
        THEN [h2 EXCEPT !.pc = "load"]
        ELSE EnsureCheck(h2, token, chat, t, cache)

\* loadSessionFromCache keeping a token the memory already holds.
loadSessionFromCache_MemoryWins(cache, token, chat) ==
    IF cache.state # "ok"
    THEN [sessionToken |-> token, chatToken |-> chat]
    ELSE [sessionToken |-> IF Falsy(token) THEN cache.sessionToken ELSE token,
          chatToken |-> IF Falsy(chat) THEN cache.chatToken ELSE chat]

\* loadSessionFromCache: the tokens in memory after it
loadSessionFromCache(cache, token, chat) ==
    IF cache.state # "ok"
    THEN [sessionToken |-> token, chatToken |-> chat]
    ELSE [sessionToken |-> IF Falsy(cache.sessionToken) THEN token ELSE cache.sessionToken,
          chatToken |-> IF Falsy(cache.chatToken) THEN chat ELSE cache.chatToken]

\* saveSessionToCache writing the exchange token only.
saveSessionToCache_ChatOnly(h, token, chat) ==
    [h EXCEPT !.pc = "write", !.snap = [sessionToken |-> NULL, chatToken |-> chat]]

\* saveSessionToCache up to its await: the data it will write
saveSessionToCache(h, token, chat) ==
    [h EXCEPT !.pc = "write", !.snap = [sessionToken |-> token, chatToken |-> chat]]

-----------------------------------------------------------------------------
(* Cookie import (library calls) *)

\* A cookie value as typed: the string s, followed or not by a semicolon.
\* value.trim().replace(/;$/, '')
StripSemicolon(value) == value.s

\* The cookies other than 'session' that setSpecificCookie stores: they go into
\* the Cookie header only, and the model keeps no variable for them.
WafCookies == {"_c_WBKFRo", "acw_tc", "c", "ssxmod_itna", "ssxmod_itna2"}

\* setSpecificCookie: the access token after it, and its return value
setSpecificCookie(name, value, token) ==
    CASE name = "session" -> [sessionToken |-> StripSemicolon(value), updated |-> TRUE]
      [] name \in WafCookies -> [sessionToken |-> token, updated |-> TRUE]
      [] OTHER -> [sessionToken |-> token, updated |-> FALSE]

\* A line of a cookies.txt: whether it starts with '#', its tab-separated
\* columns, and its split at the first '=' (<<>> when it holds none).
CommentLine == [hash |-> TRUE, cols |-> <<"# Netscape HTTP Cookie File">>, kv |-> <<>>]
NetscapeLine(name, value) ==
    [hash |-> FALSE, cols |-> <<".z.ai", "TRUE", "/", "FALSE", "0", name, value>>, kv |-> <<>>]
KeyValueLine(name, value) ==
    [hash |-> FALSE, cols |-> <<"line">>, kv |-> <<name, value>>]

\* One iteration of the loop of importCookiesFromText.
ImportLine(m, line) ==
    IF line.hash THEN m
    ELSE LET parsed == IF Len(line.cols) >= 7 THEN <<line.cols[6], line.cols[7]>> ELSE line.kv
         IN  IF parsed = <<>> THEN m
             ELSE LET r == setSpecificCookie(parsed[1], parsed[2], m.sessionToken)
                  IN  [sessionToken |-> r.sessionToken,
                       count |-> m.count + (IF r.updated THEN 1 ELSE 0),
                       session |-> m.session \/ parsed[1] = "session"]

RECURSIVE importCookiesFromText(_, _)
importCookiesFromText(m, text) ==
    IF text = <<>> THEN m
    ELSE importCookiesFromText(ImportLine(m, Head(text)), Tail(text))

CookieValues == { [s |-> EMPTY, semi |-> FALSE], [s |-> T2, semi |-> TRUE] }

CookieTexts ==
    { <<CommentLine, NetscapeLine("session", [s |-> T2, semi |-> FALSE])>>,
      <<KeyValueLine("session", [s |-> EMPTY, semi |-> FALSE])>>,
      <<KeyValueLine("acw_tc", [s |-> <<"waf">>, semi |-> TRUE]), KeyValueLine("other", [s |-> <<"x">>, semi |-> FALSE])>> }

-----------------------------------------------------------------------------
(* Initial state: the class has been loaded, start() has not run yet *)

CacheMissing == [state |-> "missing", sessionToken |-> NULL, chatToken |-> NULL]
CacheCorrupt == [state |-> "corrupt", sessionToken |-> NULL, chatToken |-> NULL]
CacheOk(token, chat) == [state |-> "ok", sessionToken |-> token, chatToken |-> chat]

Init ==
    /\ sessionToken \in {NULL, T1}
    /\ chatToken \in {NULL, CT}
    /\ cacheFile \in {CacheMissing, CacheCorrupt, CacheOk(T2, NULL), CacheOk(NULL, CT)}
    /\ now \in TimePoints
    /\ server = "starting"
    /\ handler = [c \in Clients |-> Idle]
    /\ BotSkipped

-----------------------------------------------------------------------------
(* Actions *)

\* The handler of client c moves to h2.
Goes(c, h2) ==
    /\ handler' = [handler EXCEPT ![c] = h2]
    /\ server' = IF h2.ep = "initialize" /\ h2.pc = "done"
                 THEN (IF h2.error = "" THEN "listening" ELSE "failed")
                 ELSE server
    /\ UNCHANGED botjs

\* The server takes up a request: handlers run one at a time (no request arrives
\* while another is between two awaits), in the first free slot.
Serving(c) ==
    /\ server = "listening"
    /\ \A d \in Clients : handler[d].pc = "idle"
    /\ \A d \in Clients : c <= d

\* start(): ZImage.initialize() up to its first await
Initialize(c) ==
    /\ server = "starting"
    /\ \A d \in Clients : handler[d].pc = "idle" /\ c <= d
    /\ Goes(c, [Request("initialize", NoHeader) EXCEPT !.pc = "load"])
    /\ UNCHANGED <<memory, now>>

\* fs.readFile and JSON.parse have finished: loadSessionFromCache assigns, and
\* its caller (initialize or ensureSession) goes on.
LoadSessionFromCacheDone(c) ==
    /\ handler[c].pc = "load"
    /\ LET h == handler[c]
           m == loadSessionFromCache(cacheFile, sessionToken, chatToken)
       IN  /\ sessionToken' = m.sessionToken
           /\ chatToken' = m.chatToken
           /\ Goes(c, IF h.ep = "initialize"
                      THEN (IF sessionNeedsRefreshAt(m.sessionToken, now) /\ ~Falsy(m.chatToken)
                            THEN RefreshStart(h, m.sessionToken, m.chatToken, now, cacheFile)
                            ELSE InitializeReturns(h, m.sessionToken, now))
                      ELSE EnsureCheck(h, m.sessionToken, m.chatToken, now, cacheFile))
    /\ UNCHANGED <<cacheFile, now>>

\* The authorize POST has been answered.
AuthorizeResponse(c) ==
    /\ handler[c].pc = "authorize"
    /\ \E ans \in AuthorizeAnswers :
         LET h == handler[c]
             redirectUrl == ans.redirect_url
         IN  Goes(c,
               IF ~ans.ok \/ ~ans.data
               THEN RefreshCatch([h EXCEPT !.rf.redirect = "error"], sessionToken, now, cacheFile)
               ELSE IF ~redirectUrl.present
               THEN RefreshReturns([h EXCEPT !.rf.redirect = "absent"], FALSE, sessionToken, now, cacheFile)
               ELSE IF ~redirectUrl.wellFormed
               THEN RefreshCatch([h EXCEPT !.rf.redirect = "malformed"], sessionToken, now, cacheFile)
               ELSE LET authCode == searchParamsGet(redirectUrl, "code")
                    IN  [h EXCEPT !.rf.redirect = IF authCode = NULL THEN "nocode" ELSE "code",
                                  !.authCode = authCode,
                                  !.pc = "exchange", !.net.exchange = @ + 1, !.rf.net = @ + 1])
    /\ UNCHANGED <<memory, now>>

\* The token-exchange POST has been answered.
ExchangeResponse(c) ==
    /\ handler[c].pc = "exchange"
    /\ \E ans \in ExchangeAnswers :
         LET h == handler[c]
             newToken == ans.token
         IN  IF ~ans.ok
             THEN /\ Goes(c, RefreshCatch([h EXCEPT !.rf.exchanged = "error"], sessionToken, now, cacheFile))
                  /\ UNCHANGED sessionToken
             ELSE IF Falsy(newToken)
             THEN /\ Goes(c, RefreshReturns([h EXCEPT !.rf.exchanged = "notoken"], FALSE, sessionToken, now, cacheFile))
                  /\ UNCHANGED sessionToken
             ELSE /\ sessionToken' = newToken
                  /\ Goes(c, saveSessionToCache([h EXCEPT !.rf.exchanged = "token", !.mutated = TRUE],
                                                newToken, chatToken))
    /\ UNCHANGED <<chatToken, cacheFile, now>>

\* fs.writeFile has finished, with the data taken when it was called, or failed.
WriteFileDone(c) ==
    /\ handler[c].pc = "write"
    /\ LET h == handler[c]
       IN  \/ /\ cacheFile' = CacheOk(h.snap.sessionToken, h.snap.chatToken)
              /\ Goes(c, IF h.ep = "POST /session"
                         THEN (IF Falsy(h.token) THEN Respond(h, 200, "success", "")
                               ELSE IF getSessionInfoAt(sessionToken, now).threw
                               THEN HandlerCatch([h EXCEPT !.infoThrew = TRUE], "Invalid time value")
                               ELSE Respond(h, 200, "success", ""))
                         ELSE RefreshReturns(h, TRUE, sessionToken, now, cacheFile'))
           \/ /\ cacheFile' \in {cacheFile, CacheCorrupt}
              /\ Goes(c, IF h.ep = "POST /session"
                         THEN HandlerCatch(h, "write failed")
                         ELSE RefreshCatch(h, sessionToken, now, cacheFile'))
    /\ UNCHANGED <<sessionToken, chatToken, now>>

\* A route behind the authenticate middleware: the handler runs only on "next".
Authenticated(h, next) ==
    IF authenticate(h.header) = "next" THEN next
    ELSE Respond(h, 401, "error.message", authenticate(h.header))

\* GET /health (async handler, no try/catch)
GetHealth(c) ==
    /\ Serving(c)
    /\ \E hdr \in {NoHeader, BearerPrefix \o API_KEY} :
         LET h == Request("GET /health", hdr)
         IN  \E h2 \in (IF getSessionInfoAt(sessionToken, now).threw
                        THEN Escapes([h EXCEPT !.infoThrew = TRUE], "Invalid time value")
                        ELSE {Respond(h, 200, "status", "")}) :
                Goes(c, h2)
    /\ UNCHANGED <<memory, now>>

\* GET /session (synchronous handler, no try/catch)
GetSession(c) ==
    /\ Serving(c)
    /\ \E hdr \in {NoHeader, BearerPrefix \o API_KEY} :
         LET h == Request("GET /session", hdr)
             info == getSessionInfoAt(sessionToken, now)
         IN  \E h2 \in (IF info.threw
                        THEN Escapes([h EXCEPT !.infoThrew = TRUE], "Invalid time value")
                        ELSE {Respond(h, 200, IF info.error = "" THEN "session" ELSE "valid.error", info.error)}) :
                Goes(c, h2)
    /\ UNCHANGED <<memory, now>>

\* GET /options
GetOptions(c) ==
    /\ Serving(c)
    /\ \E hdr \in {NoHeader, BearerPrefix \o API_KEY} :
         Goes(c, Respond(Request("GET /options", hdr), 200, "options", ""))
    /\ UNCHANGED <<memory, now>>

\* GET /v1/models
GetModels(c) ==
    /\ Serving(c)
    /\ \E hdr \in Headers :
         LET h == Request("GET /v1/models", hdr)
         IN  Goes(c, Authenticated(h, Respond(h, 200, "list", "")))
    /\ UNCHANGED <<memory, now>>

\* POST /generate, up to the first await of ZImage.generate
PostGenerate(c) ==
    /\ Serving(c)
    /\ \E hdr \in Headers, prompt \in {"", "a cat"}, ratio \in {"", "16:9", "2:1"},
          resolution \in {"", "4K"} :
         LET req == Request("POST /generate", hdr)
             h == [req EXCEPT !.prompt = prompt, !.ratio = ratio, !.resolution = resolution]
         IN  Goes(c, Authenticated(req,
                  IF prompt = "" THEN Respond(h, 400, "success.error", "Prompt is required")
                  ELSE ensureSession(h, sessionToken, chatToken, now, cacheFile)))
    /\ UNCHANGED <<memory, now>>

\* GET /images, up to the first await of ZImage.list
GetImages(c) ==
    /\ Serving(c)
    /\ \E hdr \in Headers :
         LET h == Request("GET /images", hdr)
         IN  Goes(c, Authenticated(h, ensureSession(h, sessionToken, chatToken, now, cacheFile)))
    /\ UNCHANGED <<memory, now>>

\* The model, size and quality of the POST /v1/images/generations bodies.
ImageBodies ==
    { [model |-> M_zimagepro, size |-> "1792x1024", quality |-> "standard"],
      [model |-> M_default, size |-> "640x480", quality |-> "low"] }

\* POST /v1/images/generations, up to the first await of the first ZImage.generate
PostImagesGenerations(c) ==
    /\ Serving(c)
    /\ \E hdr \in Headers, prompt \in {"", "a cat"}, n \in {-1, 1, MaxN}, b \in ImageBodies :
         LET req == Request("POST /v1/images/generations", hdr)
             h == [req EXCEPT !.prompt = prompt, !.n = n,
                              !.ratio = RatioOfSize(b.size),
                              !.resolution = ResolutionOf(b.model, b.quality)]
         IN  Goes(c, Authenticated(req,
                  IF prompt = "" THEN Respond(h, 400, "error.message", "Prompt is required")
                  ELSE IF Min(n, 4) <= 0 THEN Respond(h, 200, "created.data", "")
                  ELSE ensureSession(h, sessionToken, chatToken, now, cacheFile)))
    /\ UNCHANGED <<memory, now>>

\* The generate POST has been answered.
GenerateResponse(c) ==
    /\ handler[c].pc = "generate"
    /\ \E ans \in GenerateAnswers :
         LET h == handler[c]
         IN  Goes(c,
               IF ans = "error" THEN HandlerCatch(h, "Upstream error")
               ELSE IF h.ep = "POST /generate" THEN Respond(h, 200, "success.data", "")
               ELSE LET h2 == [h EXCEPT !.i = @ + 1,
                                        !.results = @ + (IF ans = "none" THEN 0 ELSE 1),
                                        !.noUrl = @ \/ ans = "data[0]"]
                    IN  IF h2.i < Min(h.n, 4)
                        THEN ensureSession(h2, sessionToken, chatToken, now, cacheFile)
                        ELSE Respond(h2, 200, "created.data", ""))
    /\ UNCHANGED <<memory, now>>

\* The list GET has been answered.
ListResponse(c) ==
    /\ handler[c].pc = "list"
    /\ \E ok \in BOOLEAN :
         Goes(c, IF ok THEN Respond(handler[c], 200, "success.data", "")
                 ELSE HandlerCatch(handler[c], "Upstream error"))
    /\ UNCHANGED <<memory, now>>

\* A library call of ZImage.get, up to its first await
ZImageGet(c) ==
    /\ Serving(c)
    /\ Goes(c, ensureSession(Request("get", NoHeader), sessionToken, chatToken, now, cacheFile))
    /\ UNCHANGED <<memory, now>>

\* The GET of ZImage.get has been answered.
GetResponse(c) ==
    /\ handler[c].pc = "get"
    /\ \E ok \in BOOLEAN :
         Goes(c, IF ok THEN [handler[c] EXCEPT !.pc = "done"]
                 ELSE HandlerCatch(handler[c], "Upstream error"))
    /\ UNCHANGED <<memory, now>>

\* POST /session testing chatToken before token.
PostSessionSets_ChatFirst(token, chat) ==
    IF ~Falsy(chat) THEN "chatToken" ELSE IF ~Falsy(token) THEN "token" ELSE "none"

\* Which field the body of POST /session sets: `if (token) ... else if (chatToken)`
PostSessionSets(token, chat) ==
    IF ~Falsy(token) THEN "token" ELSE IF ~Falsy(chat) THEN "chatToken" ELSE "none"

\* POST /session, up to the await of saveSessionToCache
PostSession(c) ==
    /\ Serving(c)
    /\ \E hdr \in {NoHeader, BearerPrefix \o API_KEY}, token \in {NULL, EMPTY} \cup Tokens,
          chat \in {NULL, CT} :
         LET h == [Request("POST /session", hdr) EXCEPT !.token = token, !.chat = chat]
         IN  IF PostSessionSets(token, chat) = "token"
             THEN /\ sessionToken' = token
                  /\ UNCHANGED chatToken
                  /\ Goes(c, saveSessionToCache([h EXCEPT !.mutated = TRUE], token, chatToken))
             ELSE IF PostSessionSets(token, chat) = "chatToken"
             THEN /\ chatToken' = chat
                  /\ UNCHANGED sessionToken
                  /\ Goes(c, saveSessionToCache([h EXCEPT !.mutated = TRUE], sessionToken, chat))
             ELSE /\ UNCHANGED <<sessionToken, chatToken>>
                  /\ Goes(c, Respond(h, 400, "success.error", "Token is required"))
    /\ UNCHANGED <<cacheFile, now>>

\* POST /session/refresh, up to the first await of refreshSession
PostSessionRefresh(c) ==
    /\ Serving(c)
    /\ \E hdr \in {NoHeader, BearerPrefix \o API_KEY} :
         Goes(c, RefreshStart(Request("POST /session/refresh", hdr),
                              sessionToken, chatToken, now, cacheFile))
    /\ UNCHANGED <<memory, now>>

\* A library call of ZImage.setSpecificCookie
SetSpecificCookie(c) ==
    /\ Serving(c)
    /\ \E name \in {"session", "acw_tc", "other"}, value \in CookieValues :
         LET r == setSpecificCookie(name, value, sessionToken)
         IN  /\ sessionToken' = r.sessionToken
             /\ Goes(c, [Request("setSpecificCookie", NoHeader) EXCEPT
                            !.pc = "done", !.mutated = (name = "session"),
                            !.results = IF r.updated THEN 1 ELSE 0])
    /\ UNCHANGED <<chatToken, cacheFile, now>>

\* A library call of ZImage.importCookiesFromText
ImportCookiesFromText(c) ==
    /\ Serving(c)
    /\ \E text \in CookieTexts :
         LET r == importCookiesFromText(
                     [sessionToken |-> sessionToken, count |-> 0, session |-> FALSE], text)
         IN  /\ sessionToken' = r.sessionToken
             /\ Goes(c, [Request("importCookiesFromText", NoHeader) EXCEPT
                            !.pc = "done",
                            !.mutated = r.session,
                            !.results = r.count])
    /\ UNCHANGED <<chatToken, cacheFile, now>>

\* The response has been delivered (or the library call has returned), or the
\* client of an unanswered request has given up.
Finish(c) ==
    /\ handler[c].pc \in {"done", "hung"}
    /\ Goes(c, Idle)
    /\ UNCHANGED <<memory, now>>

\* Time passes.
Tick ==
    /\ \E t \in TimePoints : t > now /\ now' = t
    /\ UNCHANGED <<memory, server, handler, botjs>>

Next ==
    \/ \E c \in Clients :
         \/ Initialize(c)
         \/ LoadSessionFromCacheDone(c)
         \/ AuthorizeResponse(c)
         \/ ExchangeResponse(c)
         \/ WriteFileDone(c)
         \/ GetHealth(c)
         \/ GetSession(c)
         \/ GetOptions(c)
         \/ GetModels(c)
         \/ PostGenerate(c)
         \/ GetImages(c)
         \/ PostImagesGenerations(c)
         \/ GenerateResponse(c)
         \/ ListResponse(c)
         \/ ZImageGet(c)
         \/ GetResponse(c)
         \/ PostSession(c)
         \/ PostSessionRefresh(c)
         \/ SetSpecificCookie(c)
         \/ ImportCookiesFromText(c)
         \/ Finish(c)
    \/ Tick

Spec == Init /\ [][Next]_vars

-----------------------------------------------------------------------------
(* Properties *)

Protected == {"GET /v1/models", "POST /v1/images/generations", "POST /generate", "GET /images"}

\* The POST /generate handlers that got past authentication with a prompt and
\* with a ratio or a resolution outside the enumerated sets.
BadParameters(h) ==
    /\ h.ep = "POST /generate"
    /\ h.prompt # ""
    /\ \/ (IF h.ratio = "" THEN "1:1" ELSE h.ratio) \notin ratios
       \/ (IF h.resolution = "" THEN "1K" ELSE h.resolution) \notin resolutions

\* C1 as claimed: a token that is invalid or stale when ensureSession is entered
\* leads to one refresh, and ensureSession throws exactly when that refresh
\* returned false and the token is not valid afterwards.
C1_OnEntry ==
    \A c \in Clients :
        LET e == handler[c].es
        IN  e.outcome \in {"ok", "throw"} =>
              /\ e.badOnEntry => e.refreshCalls = 1
              /\ e.outcome = "throw" <=> (e.refreshed = "false" /\ ~e.validAfter)

\* C1 amended: a token that is invalid or stale at the staleness test (which
\* follows the cache load when no token is held on entry) leads to exactly one
\* refresh, any other token to none; ensureSession throws exactly when that
\* refresh returned false and the token is not valid afterwards, and completes
\* normally when the refresh returned false but the token is still unexpired.
C1_EnsureSessionOutcome ==
    \A c \in Clients :
        LET e == handler[c].es
        IN  e.outcome \in {"ok", "throw"} =>
              /\ e.refreshCalls = (IF e.badAtCheck THEN 1 ELSE 0)
              /\ e.outcome = "throw" <=> (e.refreshed = "false" /\ ~e.validAfter)
              /\ (e.refreshed = "false" /\ e.validAfter) => e.outcome = "ok"

\* C1 witness: a stale token, a failed refresh, and ensureSession completed.
C1_Witness ==
    \E c \in Clients :
        /\ handler[c].es.badAtCheck
        /\ handler[c].es.refreshed = "false"
        /\ handler[c].es.validAfter
        /\ handler[c].es.outcome = "ok"
        /\ handler[c].pc = "generate"

\* C2 as claimed: a generate call with a ratio or resolution outside the sets
\* issues no network request at all, and fails with the invalid-parameter error.
C2_RejectedBeforeAnyNetworkCall ==
    \A c \in Clients :
        BadParameters(handler[c]) =>
            /\ handler[c].net = NoNet
            /\ handler[c].pc = "done" => handler[c].error \in {"Invalid ratio", "Invalid resolution"}

\* C3 as claimed: run one at a time, every completed operation that assigned the
\* access or exchange token leaves the cache file equal to the memory.
C3_CacheFollowsMemory ==
    \A c \in Clients :
        LET h == handler[c]
        IN  (/\ h.pc = "done"
             /\ h.mutated
             /\ \/ h.ep \in {"setSpecificCookie", "importCookiesFromText"}
                \/ h.ep = "POST /session" /\ h.status = 200
                \/ h.rf.returned = "true")
            => /\ cacheFile.state = "ok"
               /\ cacheFile.sessionToken = sessionToken
               /\ cacheFile.chatToken = chatToken

\* C4 as claimed: getSessionInfo never throws, whatever access token is stored.
C4_GetSessionInfoNeverThrows ==
    /\ ~getSessionInfoAt(sessionToken, now).threw
    /\ \A c \in Clients : ~handler[c].infoThrew

\* C5: a refreshSession called without an exchange token returns false, has
\* issued no network request, and has changed neither the access token nor the
\* cache file.
C5_NoChatTokenNoRefresh ==
    \A c \in Clients :
        LET r == handler[c].rf
        IN  (r.called /\ r.chatAbsent) =>
              /\ r.returned = "false"
              /\ r.net = 0
              /\ r.tokenKept
              /\ r.cacheKept
              /\ handler[c].pc \notin {"authorize", "exchange", "write"}

C5_Witness ==
    \E c \in Clients :
        /\ handler[c].ep = "POST /session/refresh"
        /\ handler[c].rf.called
        /\ handler[c].rf.chatAbsent
        /\ handler[c].rf.returned = "false"
        /\ handler[c].status = 500

\* C6: refreshSession never throws: once a handler has left it, whatever the
\* authorize request, the URL parsing, the token exchange and the cache write
\* did, it has returned true or false.
C6_RefreshNeverThrows ==
    \A c \in Clients :
        LET h == handler[c]
        IN  h.rf.called =>
              \/ h.pc \in {"authorize", "exchange", "write"} /\ h.rf.returned = "none"
              \/ h.rf.returned \in {"true", "false"}

\* C6 witness: the cache write failed after the token exchange, and the call
\* returned false.
C6_Witness ==
    \E c \in Clients :
        /\ handler[c].rf.exchanged = "token"
        /\ handler[c].rf.returned = "false"

\* C7 as claimed: with no redirect URL, or a redirect URL without a code,
\* refreshSession returns false and the access token is not replaced.
C7_NoCodeNoToken ==
    \A c \in Clients :
        LET r == handler[c].rf
        IN  r.redirect \in {"absent", "nocode"} =>
              /\ r.returned # "true"
              /\ r.exchanged # "token"

\* C8: on the four protected routes a request whose Authorization header is not
\* exactly 'Bearer ' followed by the API key is answered 401 with the envelope
\* {error:{message,type}}, and its handler never runs: no upstream call, no
\* ensureSession, no refresh, no assignment to the session record.
C8_Unauthenticated ==
    \A c \in Clients :
        LET h == handler[c]
        IN  (h.ep \in Protected /\ h.header # BearerPrefix \o API_KEY) =>
              /\ h.pc = "done"
              /\ h.status = 401
              /\ h.ctype = "json"
              /\ h.envelope = "error.message"
              /\ h.error \in {"Missing API key", "Invalid API key"}
              /\ h.net = NoNet
              /\ ~h.es.entered
              /\ ~h.rf.called
              /\ ~h.mutated

\* C8 witness: a Bearer header with a wrong key, answered 401.
C8_Witness ==
    \E c \in Clients :
        /\ handler[c].ep = "POST /generate"
        /\ handler[c].header = BearerPrefix \o <<"s", "k", "-", "k", "e", "z">>
        /\ handler[c].status = 401

\* C9 as claimed: an authenticated POST /generate with a prompt and a ratio or
\* resolution outside the sets is answered 400.
C9_InvalidParameterIs400 ==
    \A c \in Clients :
        (BadParameters(handler[c]) /\ handler[c].pc = "done") => handler[c].status = 400

\* C10 as claimed: no request is left without a response, and a response to an
\* internal error is a JSON body carrying a message.
C10_AlwaysAJsonAnswer ==
    \A c \in Clients :
        LET h == handler[c]
        IN  h.ep \in HttpEndpoints =>
              /\ h.pc # "hung"
              /\ (h.pc = "done" /\ h.status >= 500) => (h.ctype = "json" /\ h.error # "")

-----------------------------------------------------------------------------
(* The token codec on its own: decodeJWT, isSessionValid and               *)
(* sessionNeedsRefresh applied to one stored value at one instant.         *)
(* sessionToken holds the JavaScript value stored in ZImage.sessionToken,  *)
(* handler the latest call and what it returned.                           *)

\* A JavaScript value: a string (by its segments), null, or something else.
JsString(segs) == [js |-> "string", segs |-> segs]
JsNullValue == [js |-> "null", segs |-> NULL]
JsNumberValue == [js |-> "number", segs |-> NULL]
JsObjectValue == [js |-> "object", segs |-> NULL]

\* this.sessionToken when it is a string or null
TokenOf(v) == IF v.js = "string" THEN v.segs ELSE NULL

\* decodeJWT on any value: token.split is not a function on a number or an
\* object and cannot be read on null, a TypeError that the catch turns into null
decodeJWTValue(v) == IF v.js # "string" THEN JsNull ELSE decodeJWT(v.segs)

PayloadT1 == "eyJleHAiOjEwMDAwMCwic3ViIjoidTEiLCJjbGllbnRfaWQiOiJjIn0"

\* The stored values tried, each with what it is: whether it is absent, how many
\* segments it has, what its middle segment holds ("notjson", "null", "number",
\* "object"), and the exp claim of an object payload (hasExp, exp).
CodecInput(value, absent, middle, hasExp, exp) ==
    [value |-> value, absent |-> absent, middle |-> middle, hasExp |-> hasExp, exp |-> exp]

CodecInputs ==
    { CodecInput(JsNullValue, TRUE, "none", FALSE, 0),
      CodecInput(JsString(EMPTY), TRUE, "none", FALSE, 0),
      CodecInput(JsNumberValue, FALSE, "none", FALSE, 0),
      CodecInput(JsObjectValue, FALSE, "none", FALSE, 0),
      CodecInput(JsString(<<"abc">>), FALSE, "none", FALSE, 0),
      CodecInput(JsString(<<"hdr", PayloadT1>>), FALSE, "none", FALSE, 0),
      CodecInput(JsString(<<PayloadT1, PayloadT1>>), FALSE, "none", FALSE, 0),
      CodecInput(JsString(<<"hdr", PayloadT1, "sig", "extra">>), FALSE, "none", FALSE, 0),
      CodecInput(JsString(<<"hdr", PayloadT1, PayloadT1, "sig", "extra">>), FALSE, "none", FALSE, 0),
      CodecInput(JsString(<<"", "", "">>), FALSE, "notjson", FALSE, 0),
      CodecInput(JsString(<<"hdr", "bm90IGpzb24", "sig">>), FALSE, "notjson", FALSE, 0),
      CodecInput(JsString(<<PayloadT1, "sig", PayloadT1>>), FALSE, "notjson", FALSE, 0),
      CodecInput(JsString(<<"hdr", "bnVsbA", "sig">>), FALSE, "null", FALSE, 0),
      CodecInput(JsString(<<"hdr", "MA", "sig">>), FALSE, "number", FALSE, 0),
      CodecInput(JsString(<<"hdr", "NQ", "sig">>), FALSE, "number", FALSE, 0),
      CodecInput(JsString(<<"hdr", "e30", "sig">>), FALSE, "object", FALSE, 0),
      CodecInput(JsString(TNoExp), FALSE, "object", FALSE, 0),
      CodecInput(JsString(<<"hdr", "eyJleHAiOjB9", "sig">>), FALSE, "object", TRUE, 0),
      CodecInput(JsString(T1), FALSE, "object", TRUE, 100000),
      CodecInput(JsString(T2), FALSE, "object", TRUE, 200000) }

\* Instants around the expiry of T1 (100000000 ms) and around 24 h before it.
CodecTimes == TimePoints \cup {13599999, 99999999, 100000001}

NoCall == [op |-> "none", returned |-> "nothing"]

InitCodec ==
    /\ \E in \in CodecInputs :
         /\ sessionToken = in.value
         /\ handler = [input |-> in, call |-> NoCall]
    /\ now \in CodecTimes
    /\ chatToken = NULL
    /\ cacheFile = CacheMissing
    /\ server = "codec"
    /\ BotSkipped

Returns(op, value) ==
    /\ handler' = [handler EXCEPT !.call = [op |-> op, returned |-> value]]
    /\ UNCHANGED <<memory, now, server, botjs>>

DecodeJWT == Returns("decodeJWT", decodeJWTValue(sessionToken))

IsSessionValid ==
    /\ sessionToken.js \in {"string", "null"}
    /\ Returns("isSessionValid", isSessionValidAt(TokenOf(sessionToken), now))

SessionNeedsRefresh ==
    /\ sessionToken.js \in {"string", "null"}
    /\ Returns("sessionNeedsRefresh", sessionNeedsRefreshAt(TokenOf(sessionToken), now))

\* The test of ensureSession on the stored token: both methods, and
\* `!this.isSessionValid() || this.sessionNeedsRefresh()`
RefreshTrigger ==
    /\ sessionToken.js \in {"string", "null"}
    /\ LET valid == isSessionValidAt(TokenOf(sessionToken), now)
           needs == sessionNeedsRefreshAt(TokenOf(sessionToken), now)
       IN  Returns("ensureSession",
                   [valid |-> valid, needs |-> needs, fires |-> ~valid \/ needs])

NextCodec == DecodeJWT \/ IsSessionValid \/ SessionNeedsRefresh \/ RefreshTrigger

SpecCodec == InitCodec /\ [][NextCodec]_vars

\* C11: decodeJWT returns null, without throwing, for every value that is not a
\* string of exactly 3 dot-separated segments, and for every 3-segment string
\* whose middle segment is not base64-encoded JSON.
C11_DecodeReturnsNull ==
    LET in == handler.input
    IN  (/\ handler.call.op = "decodeJWT"
         /\ \/ in.value.js # "string"
            \/ Len(in.value.segs) # 3
            \/ in.middle = "notjson")
        => handler.call.returned = JsNull

\* C11 witness: a 4-segment string whose second segment is a good payload.
C11_Witness ==
    /\ handler.call.op = "decodeJWT"
    /\ handler.input.value = JsString(<<"hdr", PayloadT1, "sig", "extra">>)
    /\ handler.call.returned = JsNull

\* The stored value is a 3-segment string whose payload is an object.
Decodable(in) ==
    /\ ~in.absent
    /\ in.value.js = "string"
    /\ Len(in.value.segs) = 3
    /\ in.middle = "object"

\* The stored value cannot be decoded: decodeJWT answers null for it.
Undecodable(in) ==
    /\ ~in.absent
    /\ \/ in.value.js # "string"
       \/ Len(in.value.segs) # 3
       \/ in.middle \in {"notjson", "null"}

\* C12: isSessionValid returns true if and only if the access token is present,
\* decodes, and carries an exp with exp*1000 > now; it returns false for an
\* absent token, an undecodable one, a missing exp, and exp*1000 = now.
C12_IsSessionValid ==
    LET in == handler.input
    IN  handler.call.op = "isSessionValid" =>
          /\ handler.call.returned \in BOOLEAN
          /\ handler.call.returned <=> (Decodable(in) /\ in.hasExp /\ in.exp * 1000 > now)

\* C12 witness: the token expires at this very millisecond, and is not valid.
C12_Witness ==
    /\ handler.call.op = "isSessionValid"
    /\ handler.input.value = JsString(T1)
    /\ now = 100000 * 1000
    /\ handler.call.returned = FALSE

\* C13 as claimed: sessionNeedsRefresh returns true if and only if the access
\* token is absent, undecodable, or has exp*1000 - now < 24h.
C13_NeedsRefreshIff ==
    LET in == handler.input
    IN  handler.call.op = "sessionNeedsRefresh" =>
          (handler.call.returned <=>
              \/ in.absent
              \/ Undecodable(in)
              \/ Decodable(in) /\ in.hasExp /\ in.exp * 1000 - now < DayMs)

\* C13 amended: sessionNeedsRefresh returns true if and only if the access token
\* is absent, undecodable, decodes to a payload without an exp claim, or has
\* exp*1000 - now < 24h (every expired token included); it returns false when
\* the remaining lifetime is exactly 24h or more.
C13_NeedsRefresh ==
    LET in == handler.input
    IN  handler.call.op = "sessionNeedsRefresh" =>
          /\ handler.call.returned <=>
               \/ in.absent
               \/ Undecodable(in)
               \/ ~in.hasExp
               \/ in.exp * 1000 - now < DayMs
          /\ (Decodable(in) /\ in.hasExp /\ in.exp * 1000 - now >= DayMs)
               => handler.call.returned = FALSE

\* C13 witness: exactly 24h are left, and no refresh is needed.
C13_Witness ==
    /\ handler.call.op = "sessionNeedsRefresh"
    /\ handler.input.value = JsString(T1)
    /\ 100000 * 1000 - now = DayMs
    /\ handler.call.returned = FALSE

-----------------------------------------------------------------------------
(* The session record and its cache file on their own: setSession, the     *)
(* restart of the process (a fresh instance, whose tokens come from the    *)
(* environment) and loadSessionFromCache.  handler is the one call in      *)
(* flight, with the history the properties need.                           *)

\* The cache file cannot be read (a directory, no permission).
CacheUnreadable == [state |-> "unreadable", sessionToken |-> NULL, chatToken |-> NULL]
\* The cache file holds the JSON text null.
CacheJsonNull == [state |-> "null", sessionToken |-> NULL, chatToken |-> NULL]
\* The cache file holds a JSON number, string, boolean or array.
CacheJsonScalar == [state |-> "scalar", sessionToken |-> NULL, chatToken |-> NULL]

\* A field of the cached object: absent, empty, or a token.
CacheFiles ==
    {CacheMissing, CacheUnreadable, CacheCorrupt, CacheJsonNull, CacheJsonScalar}
    \cup {CacheOk(t, c) : t \in {NULL, EMPTY, T2}, c \in {NULL, EMPTY, <<"cached-chat">>}}

\* loadSessionFromCache with the exception of cached.sessionToken let through.
loadSessionFromCacheReturn_NoCatch(cache) ==
    CASE cache.state \in {"missing", "unreadable", "corrupt"} -> "null"
      [] cache.state = "null" -> "threw"
      [] OTHER -> "cached"

\* What loadSessionFromCache returns: readFile or JSON.parse throwing, and the
\* TypeError of null.sessionToken, all end in the catch; any other parsed value
\* is returned as it is.
loadSessionFromCacheReturn(cache) ==
    CASE cache.state \in {"missing", "unreadable", "corrupt"} -> "null"
      [] cache.state = "null" -> "null"
      [] OTHER -> "cached"

NoSet == [set |-> FALSE, token |-> NULL]

\* No call in flight; env is what the environment supplies to a fresh instance.
IdleCache(env) ==
    [pc |-> "idle", op |-> "none", token |-> NULL,
     snap |-> [sessionToken |-> NULL, chatToken |-> NULL],
     returned |-> "nothing", fresh |-> TRUE, lastSet |-> NoSet,
     before |-> env, env |-> env]

InitCache ==
    /\ sessionToken \in {NULL, T1}
    /\ chatToken \in {NULL, CT}
    /\ cacheFile \in CacheFiles
    /\ now \in {13600000}
    /\ server = "cache"
    /\ handler = IdleCache([sessionToken |-> sessionToken, chatToken |-> chatToken])
    /\ BotSkipped

\* setSession(token), up to the await of fs.writeFile
SetSession ==
    /\ handler.pc = "idle"
    /\ \E token \in {EMPTY} \cup Tokens :
         /\ sessionToken' = token
         /\ handler' = saveSessionToCache(
                          [handler EXCEPT !.op = "setSession", !.token = token,
                                          !.returned = "nothing", !.fresh = FALSE,
                                          !.lastSet = NoSet],
                          token, chatToken)
    /\ UNCHANGED <<chatToken, cacheFile, now, server, botjs>>

\* fs.writeFile of setSession has finished or failed; setSession then returns
\* getSessionInfo()
SetSessionWritten ==
    /\ handler.pc = "write"
    /\ \/ /\ cacheFile' = CacheOk(handler.snap.sessionToken, handler.snap.chatToken)
          /\ handler' = [handler EXCEPT
                            !.pc = "idle",
                            !.lastSet = [set |-> TRUE, token |-> handler.token],
                            !.returned = IF getSessionInfoAt(sessionToken, now).threw
                                         THEN "threw" ELSE "info"]
       \/ /\ cacheFile' \in {cacheFile, CacheCorrupt}
          /\ handler' = [handler EXCEPT !.pc = "idle", !.returned = "threw"]
    /\ UNCHANGED <<sessionToken, chatToken, now, server, botjs>>

\* The process is started again: the static fields take the environment's values.
Restart ==
    /\ handler.pc = "idle"
    /\ sessionToken' = handler.env.sessionToken
    /\ chatToken' = handler.env.chatToken
    /\ handler' = [handler EXCEPT !.op = "restart", !.fresh = TRUE, !.returned = "nothing"]
    /\ UNCHANGED <<cacheFile, now, server, botjs>>

\* loadSessionFromCache, up to the await of fs.readFile
LoadSessionFromCache ==
    /\ handler.pc = "idle"
    /\ handler' = [handler EXCEPT !.pc = "load", !.op = "loadSessionFromCache",
                                  !.returned = "nothing",
                                  !.before = [sessionToken |-> sessionToken,
                                              chatToken |-> chatToken]]
    /\ UNCHANGED <<memory, now, server, botjs>>

\* fs.readFile has finished: the rest of loadSessionFromCache
ReadFileDone ==
    /\ handler.pc = "load"
    /\ LET m == loadSessionFromCache(cacheFile, sessionToken, chatToken)
       IN  /\ sessionToken' = m.sessionToken
           /\ chatToken' = m.chatToken
           /\ handler' = [handler EXCEPT !.pc = "idle",
                                         !.returned = loadSessionFromCacheReturn(cacheFile)]
    /\ UNCHANGED <<cacheFile, now, server, botjs>>

NextCache ==
    \/ SetSession
    \/ SetSessionWritten
    \/ Restart
    \/ LoadSessionFromCache
    \/ ReadFileDone

SpecCache == InitCache /\ [][NextCache]_vars

\* loadSessionFromCache has just returned.
Loaded == handler.op = "loadSessionFromCache" /\ handler.pc = "idle"

\* C14 as claimed: for any token t, once setSession(t) has written the cache, a
\* fresh instance that runs loadSessionFromCache ends with access token t.
C14_RoundTripAnyToken ==
    (Loaded /\ handler.fresh /\ handler.lastSet.set)
        => sessionToken = handler.lastSet.token

\* C14 amended: for any non-empty token t, once setSession(t) has written the
\* cache, a fresh instance (whatever access token the environment gave it)
\* that runs loadSessionFromCache ends with access token t.
C14_RoundTrip ==
    (Loaded /\ handler.fresh /\ handler.lastSet.set /\ ~Falsy(handler.lastSet.token))
        => sessionToken = handler.lastSet.token

\* C14 witness: the environment supplies T1, setSession(T2) was called, and the
\* fresh instance has loaded T2.
C14_Witness ==
    /\ Loaded
    /\ handler.fresh
    /\ handler.lastSet = [set |-> TRUE, token |-> T2]
    /\ handler.env.sessionToken = T1
    /\ handler.before.sessionToken = T1
    /\ sessionToken = T2

\* C15: after loadSessionFromCache has read a cache file that parses as an
\* object, each in-memory token equals the cached field when that field is
\* present and non-empty, whatever it was before, and is unchanged when the
\* field is absent or empty.
C15_CachePrecedence ==
    (Loaded /\ cacheFile.state = "ok") =>
        /\ sessionToken = IF Falsy(cacheFile.sessionToken) THEN handler.before.sessionToken
                          ELSE cacheFile.sessionToken
        /\ chatToken = IF Falsy(cacheFile.chatToken) THEN handler.before.chatToken
                       ELSE cacheFile.chatToken

\* C15 witness: the cache overrides the environment's access token and leaves
\* the exchange token, whose cached field is empty, as the environment gave it.
C15_Witness ==
    /\ Loaded
    /\ cacheFile = CacheOk(T2, EMPTY)
    /\ handler.before = [sessionToken |-> T1, chatToken |-> CT]
    /\ sessionToken = T2
    /\ chatToken = CT

\* C16 as claimed: when the cache file is missing, unreadable or does not parse
\* as a JSON object, loadSessionFromCache returns null without throwing and
\* leaves both in-memory tokens unchanged.
C16_NoCacheReturnsNull ==
    (Loaded /\ cacheFile.state # "ok") =>
        /\ handler.returned = "null"
        /\ sessionToken = handler.before.sessionToken
        /\ chatToken = handler.before.chatToken

\* C16 amended: when the cache file is missing, unreadable, not valid JSON or
\* holds JSON null, loadSessionFromCache returns null; when it holds any other
\* JSON value that is not an object it returns that value; in all these cases
\* it does not throw and leaves both in-memory tokens unchanged.
C16_NoCache ==
    (Loaded /\ cacheFile.state # "ok") =>
        /\ handler.returned = (IF cacheFile.state = "scalar" THEN "cached" ELSE "null")
        /\ sessionToken = handler.before.sessionToken
        /\ chatToken = handler.before.chatToken

\* C16 witness: the file holds JSON null, and the load returned null with the
\* environment's tokens in place.
C16_Witness ==
    /\ Loaded
    /\ cacheFile = CacheJsonNull
    /\ handler.returned = "null"
    /\ sessionToken = T1
    /\ chatToken = CT

-----------------------------------------------------------------------------
(* The Telegram bot (bot.js): generateAndSend, as called by /quick and by  *)
(* the ratio button, on top of ZImage.generate and downloadAsBase64.       *)

\* url.includes('aliyuncs.com') || url.includes('oss-cn')
IsExternal(url) ==
    \/ Includes(url, <<"a", "l", "i", "y", "u", "n", "c", "s", ".", "c", "o", "m">>)
    \/ Includes(url, <<"o", "s", "s", "-", "c", "n">>)

\* downloadAsBase64 retrying after whatever error the first GET ended with.
ShouldRetry_AnyError(first) == TRUE

\* error.response && error.response.status === 403 ("network": no response)
ShouldRetry(first) == first = "403"

\* How a GET of the download can end.
GetOutcomes == {"ok", "403", "404", "network"}

\* downloadAsBase64 up to its first await: the headers are those of a browser
\* for an external host and getHeaders() otherwise; url.includes is a TypeError
\* on anything but a string, which has no response and is thrown again
DownloadStart(h, url) ==
    IF url.t # "string"
    THEN BotCatch([h EXCEPT !.bot.download = "threw"], "url.includes is not a function")
    ELSE [h EXCEPT !.pc = "download",
                   !.bot.gets = <<IF IsExternal(url.s) THEN "browser" ELSE "session">>]

\* downloadAsBase64 returned: generateAndSend calls bot.sendPhoto
Downloaded(h) ==
    [h EXCEPT !.pc = "photo", !.bot.download = "returned", !.bot.photos = @ + 1]

\* generateAndSend reaches the end of its try block
BotDone(h) == [h EXCEPT !.pc = "done", !.bot.outcome = "sent"]

InitBot ==
    /\ sessionToken \in {NULL, T1}
    /\ chatToken \in {NULL, CT}
    /\ cacheFile \in {CacheMissing, CacheOk(T2, NULL)}
    /\ now \in TimePoints
    /\ server = "listening"
    /\ handler = [c \in Clients |-> Idle]
    /\ BotListening

\* generateAndSend up to the await of the status message
GenerateAndSend(c) ==
    /\ Serving(c)
    /\ \E long \in BOOLEAN, o \in {<<"1K", "1:1">>, <<"2K", "16:9">>} :
         Goes(c, [Request("generateAndSend", NoHeader) EXCEPT
                    !.pc = "status", !.prompt = "a cat",
                    !.resolution = o[1], !.ratio = o[2], !.bot.long = long])
    /\ UNCHANGED <<memory, now>>

\* bot.sendMessage of the status message has resolved, and ZImage.generate runs
\* up to its first await; or it has rejected, and so does generateAndSend
StatusMessageSent(c) ==
    /\ handler[c].pc = "status"
    /\ \E ok \in BOOLEAN :
         Goes(c, IF ok
                 THEN ensureSession(handler[c], sessionToken, chatToken, now, cacheFile)
                 ELSE [handler[c] EXCEPT !.pc = "done", !.error = "sendMessage failed",
                                         !.bot.outcome = "rejected"])
    /\ UNCHANGED <<memory, now>>

\* The generate POST of the bot's call has been answered: findImageUrl, then
\* downloadAsBase64 up to its first await
BotGenerateResponse(c) ==
    /\ handler[c].pc = "generate"
    /\ handler[c].ep = "generateAndSend"
    /\ \E ok \in BOOLEAN, ans \in JsonDocs :
         LET h == handler[c]
         IN  Goes(c,
               IF ~ok THEN HandlerCatch(h, "Upstream error")
               ELSE LET imageUrl == findImageUrl(ans.doc)
                        h2 == [h EXCEPT !.bot.input = ans, !.bot.searched = TRUE,
                                        !.bot.found = imageUrl]
                    IN  IF JFalsy(imageUrl)
                        THEN HandlerCatch(h2, "Could not extract image URL from response")
                        ELSE DownloadStart(h2, imageUrl))
    /\ UNCHANGED <<memory, now>>

\* The first GET of downloadAsBase64 has ended.
DownloadResponse(c) ==
    /\ handler[c].pc = "download"
    /\ \E first \in GetOutcomes :
         LET h == [handler[c] EXCEPT !.bot.first = first]
         IN  Goes(c,
               IF first = "ok" THEN Downloaded(h)
               ELSE IF ShouldRetry(first)
               THEN [h EXCEPT !.pc = "retry", !.bot.gets = Append(@, "none")]
               ELSE BotCatch([h EXCEPT !.bot.download = "threw"], first))
    /\ UNCHANGED <<memory, now>>

\* The second GET of downloadAsBase64 has ended: on failure the error of the
\* first GET is thrown.
RetryResponse(c) ==
    /\ handler[c].pc = "retry"
    /\ \E retry \in GetOutcomes :
         LET h == [handler[c] EXCEPT !.bot.retry = retry]
         IN  Goes(c,
               IF retry = "ok" THEN Downloaded(h)
               ELSE BotCatch([h EXCEPT !.bot.download = "threw"], h.bot.first))
    /\ UNCHANGED <<memory, now>>

\* bot.sendPhoto has resolved or rejected.
PhotoSent(c) ==
    /\ handler[c].pc = "photo"
    /\ \E ok \in BOOLEAN :
         LET h == handler[c]
         IN  Goes(c,
               IF ~ok THEN BotCatch(h, "sendPhoto failed")
               ELSE IF h.bot.long
               THEN [h EXCEPT !.pc = "document", !.bot.documents = @ + 1]
               ELSE BotDone(h))
    /\ UNCHANGED <<memory, now>>

\* bot.sendDocument (the full prompt) has resolved or rejected.
DocumentSent(c) ==
    /\ handler[c].pc = "document"
    /\ \E ok \in BOOLEAN :
         Goes(c, IF ok THEN BotDone(handler[c])
                 ELSE BotCatch(handler[c], "sendDocument failed"))
    /\ UNCHANGED <<memory, now>>

\* bot.editMessageText of the failure notice has resolved, or has rejected and
\* the notice is sent as a new message.
EditResponse(c) ==
    /\ handler[c].pc = "edit"
    /\ \E ok \in BOOLEAN :
         Goes(c, IF ok THEN [handler[c] EXCEPT !.pc = "done", !.bot.notice = "edited"]
                 ELSE [handler[c] EXCEPT !.pc = "fallback", !.bot.notice = "sending"])
    /\ UNCHANGED <<memory, now>>

\* bot.sendMessage of the failure notice has resolved or rejected.
FallbackResponse(c) ==
    /\ handler[c].pc = "fallback"
    /\ \E ok \in BOOLEAN :
         Goes(c, [handler[c] EXCEPT !.pc = "done",
                                    !.bot.notice = IF ok THEN "sent" ELSE "lost"])
    /\ UNCHANGED <<memory, now>>

NextBot ==
    \/ \E c \in Clients :
         \/ GenerateAndSend(c)
         \/ StatusMessageSent(c)
         \/ LoadSessionFromCacheDone(c)
         \/ AuthorizeResponse(c)
         \/ ExchangeResponse(c)
         \/ WriteFileDone(c)
         \/ BotGenerateResponse(c)
         \/ DownloadResponse(c)
         \/ RetryResponse(c)
         \/ PhotoSent(c)
         \/ DocumentSent(c)
         \/ EditResponse(c)
         \/ FallbackResponse(c)
         \/ Finish(c)
    \/ Tick

SpecBot == InitBot /\ [][NextBot]_vars

\* The generateAndSend calls whose upstream answer has been searched.
Searched(h) == h.ep = "generateAndSend" /\ h.bot.searched

\* C17 as claimed: findImageUrl applies its rules in priority order at every
\* node, depth first, taking the property values of an object in insertion
\* order: it yields the value expected of each document under those rules.
C17_FirstMatchInInsertionOrder ==
    \A c \in Clients :
        Searched(handler[c]) => handler[c].bot.found = handler[c].bot.input.expect

\* C18 as claimed: findImageUrl returns either null or a string, and null when
\* nothing in the document qualifies.
C18_NullOrString ==
    \A c \in Clients :
        Searched(handler[c]) =>
            /\ handler[c].bot.found.t \in {"null", "string"}
            /\ handler[c].bot.input.expect = JNull => handler[c].bot.found = JNull

\* C19: when findImageUrl returns null for the upstream answer, no GET of the
\* download is issued, no photo is sent, generate has been called once and is
\* not called again, and the failure notice goes to the user: the status message
\* is edited once, and a message is sent instead if Telegram refuses the edit.
C19_NoUrlFailsHard ==
    \A c \in Clients :
        LET h == handler[c]
        IN  (Searched(h) /\ JFalsy(h.bot.found)) =>
              /\ h.bot.gets = <<>>
              /\ h.bot.download = "none"
              /\ h.bot.photos = 0
              /\ h.bot.documents = 0
              /\ h.net.generate = 1
              /\ h.bot.outcome = "failed"
              /\ h.error = "Could not extract image URL from response"
              /\ h.bot.edits = 1
              /\ h.pc \in {"edit", "fallback", "done"}
              /\ h.pc = "done" => h.bot.notice # "none"

\* C19 witness: nothing qualifies in {foo: "not a url"}, and the status message
\* now carries the failure notice.
C19_Witness ==
    \E c \in Clients :
        /\ Searched(handler[c])
        /\ handler[c].bot.input.doc =
              JObject(<<[k |-> "foo", v |-> JString(<<"n", "o", "t", " ", "a", " ", "u", "r", "l">>)]>>)
        /\ handler[c].bot.found = JNull
        /\ handler[c].pc = "done"
        /\ handler[c].bot.notice = "edited"

\* C20: downloadAsBase64 issues at most two GET requests; the second is issued
\* exactly when the first ended with status 403, and carries no custom headers;
\* when the first GET fails otherwise, or when the second fails too, the call
\* throws the error of the first GET to its caller; it returns when either GET
\* succeeds.
C20_RetryOnceOn403 ==
    \A c \in Clients :
        LET b == handler[c].bot
        IN  /\ Len(b.gets) <= 2
            /\ Len(b.gets) >= 1 => b.gets[1] \in {"browser", "session"}
            /\ Len(b.gets) = 2 <=> b.first = "403"
            /\ Len(b.gets) = 2 => b.gets[2] = "none"
            /\ (b.first \in {"404", "network"} \/ b.retry \notin {"none", "ok"}) =>
                  /\ b.download = "threw"
                  /\ handler[c].error = b.first
                  /\ b.photos = 0
            /\ (b.first = "ok" \/ b.retry = "ok") => b.download = "returned"

\* C20 witness: 403, then a retry without headers that fails as well, and the
\* 403 reaches generateAndSend.
C20_Witness ==
    \E c \in Clients :
        /\ handler[c].bot.gets = <<"session", "none">>
        /\ handler[c].bot.first = "403"
        /\ handler[c].bot.retry = "network"
        /\ handler[c].bot.download = "threw"
        /\ handler[c].error = "403"

-----------------------------------------------------------------------------
(* The mapping of an OpenAI-style body to the parameters of generate, on   *)
(* its own: POST /v1/images/generations from the body to the first call.   *)

MappingModels ==
    {M_zimage, M_zimagepro, M_dalle3, M_dalle2, M_default, M_custom, M_customhd, M_constructor}

MappingSizes ==
    {"256x256", "512x512", "1024x1024", "1024x1792", "720x1280", "1080x1920",
     "1792x1024", "1280x720", "1920x1080", "640x480", "", "toString"}

MappingQualities == {"standard", "hd", "low", "high", "medium", ""}

InitMapping ==
    /\ sessionToken = T2
    /\ chatToken = NULL
    /\ cacheFile = CacheMissing
    /\ now \in {13600000}
    /\ server = "mapping"
    /\ \E model \in MappingModels, size \in MappingSizes, quality \in MappingQualities :
         handler = [body |-> [model |-> model, size |-> size, quality |-> quality],
                    mapped |-> FALSE, ratio |-> "", resolution |-> ""]
    /\ BotSkipped

\* The handler computes the ratio and the resolution it passes to generate.
MapImageRequest ==
    /\ ~handler.mapped
    /\ handler' = [handler EXCEPT
                      !.mapped = TRUE,
                      !.ratio = RatioOfSize(handler.body.size),
                      !.resolution = ResolutionOf(handler.body.model, handler.body.quality)]
    /\ UNCHANGED <<memory, now, server, botjs>>

NextMapping == MapImageRequest

SpecMapping == InitMapping /\ [][NextMapping]_vars

\* const resolution = options.resolution || '1K' in generate
EffectiveResolution(resolution) == IF resolution = "" THEN "1K" ELSE resolution

\* C24 as claimed: for a model name that is not in the model table the
\* resolution is 2K if quality is 'hd' or 'high' and 1K otherwise, whatever the
\* name, names containing 'hd' included.
C24_QualityAlone ==
    (handler.mapped /\ handler.body.model \notin {M_zimage, M_zimagepro, M_dalle3, M_dalle2}) =>
        EffectiveResolution(handler.resolution) =
            (IF handler.body.quality \in {"hd", "high"} THEN "2K" ELSE "1K")

\* C25: a model name listed in the model table fixes the resolution whatever
\* the quality: z-image and dall-e-2 give 1K, z-image-pro and dall-e-3 give 2K.
C25_TableModelFixesResolution ==
    handler.mapped =>
        /\ handler.body.model \in {M_zimage, M_dalle2} => handler.resolution = "1K"
        /\ handler.body.model \in {M_zimagepro, M_dalle3} => handler.resolution = "2K"

\* C25 witness: z-image with quality 'hd' is generated at 1K.
C25_Witness ==
    /\ handler.mapped
    /\ handler.body.model = M_zimage
    /\ handler.body.quality = "hd"
    /\ handler.resolution = "1K"

\* C26 as claimed: the ratio passed to generate is the table value of the size
\* and 1:1 for every other size, so it is always one of the supported ratios.
C26_RatioOfSize ==
    handler.mapped =>
        /\ handler.ratio =
              (CASE handler.body.size \in {"256x256", "512x512", "1024x1024"} -> "1:1"
                 [] handler.body.size \in {"1024x1792", "720x1280", "1080x1920"} -> "9:16"
                 [] handler.body.size \in {"1792x1024", "1280x720", "1920x1080"} -> "16:9"
                 [] OTHER -> "1:1")
        /\ handler.ratio \in ratios

-----------------------------------------------------------------------------
(* Properties of the gateway, continued *)

\* The routes that call generate or list.
GatewayRoutes == {"POST /generate", "GET /images", "POST /v1/images/generations"}

C29_SessionExpiredIs500 ==
    \A c \in Clients :
        LET h == handler[c]
        IN  (h.ep \in GatewayRoutes \cup {"get"} /\ h.es.outcome = "throw") =>
              /\ h.pc = "done"
              /\ h.net.generate = h.i
              /\ h.net.list = 0
              /\ h.net.get = 0
              /\ h.error = "Session expired"
              /\ h.ep \in GatewayRoutes =>
                    (h.status = 500 /\ h.ctype = "json"
                     /\ h.envelope \in {"success.error", "error.message"})

\* C29 witness: the second generate call of a request finds the session
\* expired, and the request is answered 500.
C29_Witness ==
    \E c \in Clients :
        /\ handler[c].ep = "POST /v1/images/generations"
        /\ handler[c].es.outcome = "throw"
        /\ handler[c].i = 1
        /\ handler[c].status = 500

\* The handler of client c enters ensureSession in this step.
EntersEnsureSession(c) ==
    /\ handler'[c] # handler[c]
    /\ handler'[c].es.entered
    /\ \/ handler[c].pc = "idle"
       \/ /\ handler[c].pc = "generate"
          /\ handler'[c].i = handler[c].i + 1
          /\ handler'[c].i < Min(handler[c].n, 4)

\* C30: when the access token is decodable and expires 24h or more from now
\* on entry, ensureSession issues no network request, does not read the cache
\* file, returns, and the step that runs it leaves the access token, the
\* exchange token and the cache file as they were.
C30_FreshTokenFrame ==
    /\ [](\A c \in Clients :
            LET h == handler[c]
            IN  (h.es.entered /\ ~h.es.badOnEntry) =>
                  /\ h.es.refreshCalls = 0
                  /\ ~h.rf.called
                  /\ h.net.authorize = 0 \/ h.i > 0
                  /\ h.es.outcome = "ok"
                  /\ h.pc \notin {"load", "authorize", "exchange", "write"})
    /\ [][\A c \in Clients :
            (EntersEnsureSession(c) /\ ~handler'[c].es.badOnEntry) => memory' = memory]_vars

\* C30 witness: a fresh token, and generate has gone on to its POST.
C30_Witness ==
    \E c \in Clients :
        /\ handler[c].ep = "POST /generate"
        /\ handler[c].es.entered
        /\ ~handler[c].es.badOnEntry
        /\ ~Falsy(chatToken)
        /\ handler[c].pc = "generate"

-----------------------------------------------------------------------------
(* Two three-segment tokens with the same middle segment: the stored one    *)
(* (sessionToken) and a second one (handler.other), each method run once    *)
(* with the one stored and once with the other stored, at the same instant. *)

MiddleSegments ==
    {PayloadT1, "eyJleHAiOjIwMDAwMCwic3ViIjoidTEiLCJjbGllbnRfaWQiOiJjIn0", "eyJleHAiOjB9",
     "eyJzdWIiOiJ1MSJ9", "NQ", "bnVsbA", "bm90IGpzb24", ""}

FirstSegments == {"hdr", "", PayloadT1}

ThirdSegments == {"sig", "", "forged"}

InitSegments ==
    /\ \E middle \in MiddleSegments, f1 \in FirstSegments, f2 \in FirstSegments,
          t1 \in ThirdSegments, t2 \in ThirdSegments :
         /\ <<f1, t1>> # <<f2, t2>>
         /\ sessionToken = <<f1, middle, t1>>
         /\ handler = [other |-> <<f2, middle, t2>>, op |-> "none",
                       returned |-> JsNull, otherReturned |-> JsNull]
    /\ now \in CodecTimes
    /\ chatToken = NULL
    /\ cacheFile = CacheMissing
    /\ server = "segments"
    /\ BotSkipped

\* A boolean result, in the shape of the decoded values.
JsBoolean(b) == [kind |-> IF b THEN "true" ELSE "false", num |-> 0, hasExp |-> FALSE, exp |-> 0]

ReturnsBoth(op, value, otherValue) ==
    /\ handler' = [handler EXCEPT !.op = op, !.returned = value, !.otherReturned = otherValue]
    /\ UNCHANGED <<memory, now, server, botjs>>

DecodeJWTBoth ==
    ReturnsBoth("decodeJWT", decodeJWT(sessionToken), decodeJWT(handler.other))

IsSessionValidBoth ==
    ReturnsBoth("isSessionValid",
                JsBoolean(isSessionValidAt(sessionToken, now)),
                JsBoolean(isSessionValidAt(handler.other, now)))

SessionNeedsRefreshBoth ==
    ReturnsBoth("sessionNeedsRefresh",
                JsBoolean(sessionNeedsRefreshAt(sessionToken, now)),
                JsBoolean(sessionNeedsRefreshAt(handler.other, now)))

NextSegments == DecodeJWTBoth \/ IsSessionValidBoth \/ SessionNeedsRefreshBoth

SpecSegments == InitSegments /\ [][NextSegments]_vars

\* C28: two three-segment tokens with the same middle segment and different
\* first or third segments decode to the same claims and get the same
\* isSessionValid and sessionNeedsRefresh results.
C28_MiddleSegmentOnly ==
    (sessionToken[2] = handler.other[2] /\ sessionToken # handler.other /\ handler.op # "none") =>
        handler.returned = handler.otherReturned

\* C28 witness: the token T1 and one with its payload under another header and
\* a forged third segment are both found valid.
C28_Witness ==
    /\ sessionToken = T1
    /\ handler.other = <<"", PayloadT1, "forged">>
    /\ handler.op = "isSessionValid"
    /\ handler.returned = JsBoolean(TRUE)
    /\ handler.otherReturned = JsBoolean(TRUE)

-----------------------------------------------------------------------------
(* bot.js: sendImageToAdmin, with the 'message' handler that captures the   *)
(* chat id and the environment changing under the running process.  Calls   *)
(* may overlap: each client is one call.                                    *)

ChatIds == {"7", "8"}

\* A call of sendImageToAdmin: what it was given (fullPromptText, and the
\* token and chat ids it found on entry), the sends it has asked for, what it
\* logged and how its promise settled.
NoAdminCall ==
    [pc |-> "idle", fullPromptText |-> "", token |-> "", envChatId |-> "", chatId |-> "",
     photos |-> 0, documents |-> 0, logged |-> "", outcome |-> "pending"]

InitAdmin ==
    /\ sessionToken = T2
    /\ chatToken = NULL
    /\ cacheFile = CacheMissing
    /\ now \in {13600000}
    /\ server = "listening"
    /\ \E token \in {"", "bot-token"}, chat \in {"", "7"} :
         /\ processEnv = [TELEGRAM_BOT_TOKEN |-> token, TELEGRAM_CHAT_ID |-> chat]
         /\ currentChatId = chat
    /\ pendingGenerations = <<>>
    /\ keyboards = {}
    /\ handler = [c \in Clients |-> NoAdminCall]

\* The catch block of sendImageToAdmin, with the error thrown again.
AdminCatch_Rethrow(h) ==
    [h EXCEPT !.pc = "done", !.logged = "Failed to forward image", !.outcome = "rejected"]

\* The catch block of sendImageToAdmin
AdminCatch(h) ==
    [h EXCEPT !.pc = "done", !.logged = "Failed to forward image", !.outcome = "resolved"]

\* sendImageToAdmin from its entry to its first await; chat is currentChatId
\* after the update from the environment, built is whether new TelegramBot
\* returned.
AdminEntry(h, token, chat, built) ==
    IF token = "" THEN [h EXCEPT !.pc = "done", !.outcome = "resolved"]
    ELSE IF chat = "" THEN [h EXCEPT !.pc = "done", !.logged = "No Chat ID configured",
                                     !.outcome = "resolved"]
    ELSE IF ~built THEN AdminCatch(h)
    ELSE [h EXCEPT !.pc = "sendPhoto", !.photos = @ + 1]

\* The bot 'message' handler: the first chat that writes is captured
\* (handlers are registered only when startBot had a token).
Message ==
    /\ processEnv.TELEGRAM_BOT_TOKEN # ""
    /\ \E chatId \in ChatIds :
         currentChatId' = IF currentChatId = "" THEN chatId ELSE currentChatId
    /\ UNCHANGED <<memory, now, server, handler, processEnv, pendingGenerations, keyboards>>

\* TELEGRAM_CHAT_ID is set, changed or removed in the environment of the
\* running process.
EnvChanged ==
    /\ \E chat \in {""} \cup ChatIds :
         /\ chat # processEnv.TELEGRAM_CHAT_ID
         /\ processEnv' = [processEnv EXCEPT !.TELEGRAM_CHAT_ID = chat]
    /\ UNCHANGED <<memory, now, server, handler, pendingGenerations, currentChatId, keyboards>>

\* sendImageToAdmin, up to the await of sendPhoto
SendImageToAdmin(c) ==
    /\ handler[c].pc = "idle"
    /\ \E fullPromptText \in {"", "a cat"}, built \in BOOLEAN :
         LET chat == IF processEnv.TELEGRAM_CHAT_ID # "" THEN processEnv.TELEGRAM_CHAT_ID
                     ELSE currentChatId
             h == [NoAdminCall EXCEPT !.fullPromptText = fullPromptText,
                                      !.token = processEnv.TELEGRAM_BOT_TOKEN,
                                      !.envChatId = processEnv.TELEGRAM_CHAT_ID,
                                      !.chatId = currentChatId]
         IN  /\ handler' = [handler EXCEPT ![c] =
                               AdminEntry(h, processEnv.TELEGRAM_BOT_TOKEN, chat, built)]
             /\ currentChatId' = IF processEnv.TELEGRAM_BOT_TOKEN = "" THEN currentChatId
                                 ELSE chat
    /\ UNCHANGED <<memory, now, server, processEnv, pendingGenerations, keyboards>>

\* sendPhoto has resolved or rejected.
AdminPhotoSent(c) ==
    /\ handler[c].pc = "sendPhoto"
    /\ \E ok \in BOOLEAN :
         handler' = [handler EXCEPT ![c] =
                        IF ~ok THEN AdminCatch(@)
                        ELSE IF @.fullPromptText # ""
                             THEN [@ EXCEPT !.pc = "sendDocument", !.documents = @ + 1]
                             ELSE [@ EXCEPT !.pc = "done", !.logged = "forwarded",
                                            !.outcome = "resolved"]]
    /\ UNCHANGED <<memory, now, server, botjs>>

\* sendDocument has resolved or rejected.
AdminDocumentSent(c) ==
    /\ handler[c].pc = "sendDocument"
    /\ \E ok \in BOOLEAN :
         handler' = [handler EXCEPT ![c] =
                        IF ~ok THEN AdminCatch(@)
                        ELSE [@ EXCEPT !.pc = "done", !.logged = "forwarded",
                                       !.outcome = "resolved"]]
    /\ UNCHANGED <<memory, now, server, botjs>>

\* The caller has the settled promise.
AdminSettled(c) ==
    /\ handler[c].pc = "done"
    /\ handler' = [handler EXCEPT ![c] = NoAdminCall]
    /\ UNCHANGED <<memory, now, server, botjs>>

NextAdmin ==
    \/ Message
    \/ EnvChanged
    \/ \E c \in Clients :
         \/ SendImageToAdmin(c)
         \/ AdminPhotoSent(c)
         \/ AdminDocumentSent(c)
         \/ AdminSettled(c)

SpecAdmin == InitAdmin /\ [][NextAdmin]_vars

\* C22: sendImageToAdmin never rejects; called without a bot token, or with no
\* chat id in the environment or captured, it resolves without asking for a
\* photo or a document to be sent; and a failure while sending is logged and
\* the promise resolves all the same.
C22_NeverRejects ==
    \A c \in Clients :
        LET h == handler[c]
        IN  /\ h.outcome # "rejected"
            /\ h.pc = "done" => h.outcome = "resolved"
            /\ (h.pc # "idle" /\ (h.token = "" \/ (h.envChatId = "" /\ h.chatId = ""))) =>
                  (h.pc = "done" /\ h.photos = 0 /\ h.documents = 0)
            /\ h.logged = "Failed to forward image" => (h.pc = "done" /\ h.outcome = "resolved")

\* C22 witness: the photo went out, sending the prompt document failed, and the
\* call resolved with the failure logged.
C22_Witness ==
    \E c \in Clients :
        /\ handler[c].pc = "done"
        /\ handler[c].photos = 1
        /\ handler[c].documents = 1
        /\ handler[c].logged = "Failed to forward image"
        /\ handler[c].outcome = "resolved"

-----------------------------------------------------------------------------
(* Requests that overlap: a request is taken up while another is between    *)
(* two awaits.                                                              *)

InitOverlap ==
    /\ sessionToken \in {NULL, T1}
    /\ chatToken \in {NULL, CT}
    /\ cacheFile = CacheMissing
    /\ now \in {13600000, 13600001}
    /\ server = "listening"
    /\ handler = [c \in Clients |-> Idle]
    /\ BotSkipped

\* POST /generate or GET /images with the API key (and a prompt), taken up
\* whatever the other handlers are doing, up to the first await.
Arrives(c) ==
    /\ server = "listening"
    /\ handler[c].pc = "idle"
    /\ \E ep \in {"POST /generate", "GET /images"} :
         LET h == [Request(ep, BearerPrefix \o API_KEY) EXCEPT !.prompt = "a cat"]
         IN  Goes(c, Authenticated(h, ensureSession(h, sessionToken, chatToken, now, cacheFile)))
    /\ UNCHANGED <<memory, now>>

NextOverlap ==
    \E c \in Clients :
         \/ Arrives(c)
         \/ LoadSessionFromCacheDone(c)
         \/ AuthorizeResponse(c)
         \/ ExchangeResponse(c)
         \/ WriteFileDone(c)
         \/ GenerateResponse(c)
         \/ ListResponse(c)
         \/ Finish(c)

SpecOverlap == InitOverlap /\ [][NextOverlap]_vars

\* C23: there is no single-flight guard: every request that finds the token
\* invalid or stale at its check calls refreshSession itself, and with an
\* exchange token configured sends its own authorize request, whatever refresh
\* another request has in flight.
C23_EveryStaleCheckRefreshes ==
    \A c \in Clients :
        LET h == handler[c]
        IN  (h.es.entered /\ h.es.badAtCheck) =>
              /\ h.rf.called
              /\ ~h.rf.chatAbsent => h.rf.net >= 1

\* C23 witness: two requests found the same stale token, and the authorize
\* requests of both are in flight.
C23_Witness ==
    /\ \A c \in Clients :
         /\ handler[c].pc = "authorize"
         /\ handler[c].es.badAtCheck
         /\ handler[c].rf.tokenBefore = T1
    /\ ~Falsy(chatToken)

-----------------------------------------------------------------------------
(* bot.js: /imagine and the callback_query handler.  A string the code      *)
(* splits on '_' is the tuple of its segments.  Updates are handled as they *)
(* come: each client is one callback query being handled, and a query may   *)
(* be taken up while another awaits generateAndSend.                        *)

\* The instants at which /imagine messages come
CallbackTimes == {13600000, 13600001}

\* match[1].trim() of the texts tried
Trim(text) == IF text = " " THEN "" ELSE text

\* `${chatId}_${Date.now()}`
RequestIdOf(chatId, t) == <<chatId, ToString(t)>>

\* pendingGenerations.set / delete / get
MapSet(map, key, value) ==
    [k \in DOMAIN map \cup {key} |-> IF k = key THEN value ELSE map[k]]

\* pendingGenerations.delete that removes nothing.
MapDelete_Nothing(map, key) == map

MapDelete(map, key) == [k \in DOMAIN map \ {key} |-> map[k]]

MapHas(map, key) == key \in DOMAIN map

\* The ratio buttons of the keyboard built in the model_ branch
RatioButtons == {"1:1", "16:9", "9:16", "4:3", "3:4", "21:9"}

\* The request id a piece of callback data was built with: what follows the
\* prefix in the template literal that produced it.
RequestIdIn(data) ==
    IF data = <<>> THEN <<>>
    ELSE IF data[1] = "model" THEN SubSeq(data, 3, Len(data))
    ELSE IF data[1] = "ratio" THEN SubSeq(data, 4, Len(data))
    ELSE Tail(data)

\* Callback data no keyboard of this process carries: ratio buttons as the
\* templates of the model_ branch would build them for a whole request id.
ForeignData ==
    { <<"ratio", "16:9", res>> \o RequestIdOf("7", t) :
        res \in {"1K", "2K"}, t \in CallbackTimes }

NoGeneration == [prompt |-> "", resolution |-> "", ratio |-> ""]

\* A callback query being handled: its data, whether a keyboard of the bot
\* carried it (own), whether the request it was built for was pending when it
\* came (wasPending) and with what prompt (stored); the request id the handler
\* extracted; the answer and the buttons it gave; the generateAndSend call it
\* made; whether it deleted an entry; how it settled.
NoQuery ==
    [pc |-> "idle", data |-> <<>>, own |-> FALSE, wasPending |-> FALSE, stored |-> "",
     requestId |-> <<>>, answer |-> "", offered |-> {},
     generation |-> NoGeneration, deleted |-> FALSE, outcome |-> "pending"]

InitCallbacks ==
    /\ sessionToken = T2
    /\ chatToken = NULL
    /\ cacheFile = CacheMissing
    /\ now \in {13600000}
    /\ server = "listening"
    /\ handler = [c \in Clients |-> NoQuery]
    /\ BotListening

\* /imagine <text>: the 'message' handler and the onText handler both run.
Imagine ==
    /\ \E chatId \in {"7"}, text \in {" ", "a cat", "a dog"} :
         LET prompt == Trim(text)
             requestId == RequestIdOf(chatId, now)
         IN  /\ currentChatId' = IF currentChatId = "" THEN chatId ELSE currentChatId
             /\ IF prompt = ""
                THEN UNCHANGED <<pendingGenerations, keyboards>>
                ELSE /\ pendingGenerations' =
                          MapSet(pendingGenerations, requestId,
                                 [prompt |-> prompt, chatId |-> chatId])
                     /\ keyboards' = keyboards \cup
                          { <<"model", "1K">> \o requestId, <<"model", "2K">> \o requestId,
                            <<"cancel">> \o requestId }
    /\ UNCHANGED <<memory, now, server, handler, processEnv>>

\* Date.now() moves on between two messages.
TimePasses ==
    /\ \E t \in CallbackTimes : t > now /\ now' = t
    /\ UNCHANGED <<memory, server, handler, botjs>>

\* const [, resolution, requestId] = data.split('_'): the request id the model_
\* branch reads is the third segment only (undefined when there is none).
ModelRequestId(parts) == IF Len(parts) >= 3 THEN <<parts[3]>> ELSE <<>>

\* The callback_query handler up to its first await (or to its end), as the new
\* value of the handler, of pendingGenerations and of the keyboards.
CallbackBranch(h, data, map, boards) ==
    IF Len(data) >= 2 /\ data[1] = "model"
    THEN LET resolution == data[2]
             requestId == ModelRequestId(data)
         IN  IF ~MapHas(map, requestId)
             THEN [h |-> [h EXCEPT !.pc = "done", !.requestId = requestId,
                                   !.answer = "Request expired", !.outcome = "resolved"],
                   map |-> map, boards |-> boards]
             ELSE LET buttons == { <<"ratio", r, resolution>> \o requestId : r \in RatioButtons }
                                 \cup { <<"cancel">> \o requestId }
                  IN  [h |-> [h EXCEPT !.pc = "done", !.requestId = requestId,
                                       !.answer = "ok", !.offered = buttons,
                                       !.outcome = "resolved"],
                       map |-> map, boards |-> boards \cup buttons]
    ELSE IF Len(data) >= 2 /\ data[1] = "ratio"
    THEN LET ratio == data[2]
             resolution == IF Len(data) >= 3 THEN data[3] ELSE ""
             requestId == SubSeq(data, 4, Len(data))
         IN  IF ~MapHas(map, requestId)
             THEN [h |-> [h EXCEPT !.pc = "done", !.requestId = requestId,
                                   !.answer = "Request expired", !.outcome = "resolved"],
                   map |-> map, boards |-> boards]
             ELSE [h |-> [h EXCEPT !.pc = "status", !.requestId = requestId,
                                   !.answer = "Generating",
                                   !.generation = [prompt |-> map[requestId].prompt,
                                                   resolution |-> resolution,
                                                   ratio |-> ratio]],
                   map |-> map, boards |-> boards]
    ELSE IF Len(data) >= 2 /\ data[1] = "cancel"
    THEN LET requestId == Tail(data)
         IN  [h |-> [h EXCEPT !.pc = "done", !.requestId = requestId,
                              !.answer = "Cancelled", !.deleted = TRUE,
                              !.outcome = "resolved"],
              map |-> MapDelete(map, requestId), boards |-> boards]
    ELSE [h |-> [h EXCEPT !.pc = "done", !.outcome = "resolved"],
          map |-> map, boards |-> boards]

\* A button is pressed (or callback data comes that no keyboard of this process
\* carries): the callback_query handler up to its first await.
CallbackQuery(c) ==
    /\ handler[c].pc = "idle"
    /\ \E data \in keyboards \cup ForeignData :
         LET id == RequestIdIn(data)
             h == [NoQuery EXCEPT !.data = data, !.own = (data \in keyboards),
                                  !.wasPending = MapHas(pendingGenerations, id),
                                  !.stored = IF MapHas(pendingGenerations, id)
                                             THEN pendingGenerations[id].prompt ELSE ""]
             r == CallbackBranch(h, data, pendingGenerations, keyboards)
         IN  /\ handler' = [handler EXCEPT ![c] = r.h]
             /\ pendingGenerations' = r.map
             /\ keyboards' = r.boards
    /\ UNCHANGED <<memory, now, server, processEnv, currentChatId>>

\* bot.sendMessage of generateAndSend's status message has resolved, or it has
\* rejected and generateAndSend and the handler reject with it.
CallbackStatusSent(c) ==
    /\ handler[c].pc = "status"
    /\ \E ok \in BOOLEAN :
         handler' = [handler EXCEPT ![c] =
                        IF ok THEN [@ EXCEPT !.pc = "generateAndSend"]
                        ELSE [@ EXCEPT !.pc = "done", !.outcome = "rejected"]]
    /\ UNCHANGED <<memory, now, server, botjs>>

\* generateAndSend has resolved (its try/catch lets nothing out): the handler
\* deletes the entry.
CallbackGenerated(c) ==
    /\ handler[c].pc = "generateAndSend"
    /\ handler' = [handler EXCEPT ![c] =
                      [@ EXCEPT !.pc = "done", !.deleted = TRUE, !.outcome = "resolved"]]
    /\ pendingGenerations' = MapDelete(pendingGenerations, handler[c].requestId)
    /\ UNCHANGED <<memory, now, server, processEnv, currentChatId, keyboards>>

\* The handler's promise has settled.
CallbackHandled(c) ==
    /\ handler[c].pc = "done"
    /\ handler' = [handler EXCEPT ![c] = NoQuery]
    /\ UNCHANGED <<memory, now, server, botjs>>

NextCallbacks ==
    \/ Imagine
    \/ TimePasses
    \/ \E c \in Clients :
         \/ CallbackQuery(c)
         \/ CallbackStatusSent(c)
         \/ CallbackGenerated(c)
         \/ CallbackHandled(c)

SpecCallbacks == InitCallbacks /\ [][NextCallbacks]_vars

\* C21: for a request that is pending, pressing a quality button the bot put on
\* display for it is answered with the ratio buttons of that request; pressing
\* one of those starts generateAndSend with the stored prompt and the chosen
\* resolution and ratio; and the entry is deleted once generateAndSend is over.
C21_QualityThenRatioGenerates ==
    \A c \in Clients :
        LET h == handler[c]
        IN  (h.pc # "idle" /\ h.own /\ h.wasPending) =>
              /\ h.data[1] = "model" =>
                    /\ h.answer = "ok"
                    /\ \E b \in h.offered : b[1] = "ratio" /\ b[3] = h.data[2]
                                            /\ RequestIdIn(b) = RequestIdIn(h.data)
              /\ h.data[1] = "ratio" =>
                    /\ h.generation = [prompt |-> h.stored, resolution |-> h.data[3],
                                       ratio |-> h.data[2]]
                    /\ (h.pc = "done" /\ h.outcome = "resolved") =>
                          (h.deleted /\ h.requestId = RequestIdIn(h.data))

-----------------------------------------------------------------------------
(* Properties of the session record, continued *)

\* C31: whenever refreshSession has returned false the access token is the one
\* held before the call; and a call that replaced the token had a non-empty
\* token from the token-exchange step.
C31_FalseKeepsToken ==
    \A c \in Clients :
        LET h == handler[c]
        IN  /\ h.rf.returned = "false" => h.rf.tokenKept
            /\ (h.rf.returned # "none" /\ ~h.rf.tokenKept) => h.rf.exchanged = "token"

\* C32: whenever ensureSession has returned normally, the access token was
\* valid (decodable and unexpired) when it returned: either the staleness test
\* found it so, or it was so after the refresh.
C32_ReturnsWithValidToken ==
    \A c \in Clients :
        LET h == handler[c]
        IN  (h.es.entered /\ h.es.outcome = "ok") =>
              IF h.es.refreshed = "none" THEN ~h.es.badAtCheck ELSE h.es.validAfter

\* C33: an HTTP request that does not carry 'Bearer ' followed by the API key
\* assigns nothing to the session record, writes nothing to the cache file and
\* starts no refresh.
C33_OnlyWithApiKey ==
    \A c \in Clients :
        LET h == handler[c]
        IN  (h.ep \in HttpEndpoints /\ h.header # BearerPrefix \o API_KEY) =>
              /\ ~h.mutated
              /\ h.pc # "write"
              /\ ~h.rf.called
              /\ h.net.authorize = 0

\* C34: a 200 answer of POST /v1/images/generations carries exactly min(n, 4)
\* data entries (none for a negative n), each with a defined url.
C34_EveryEntryHasAUrl ==
    \A c \in Clients :
        LET h == handler[c]
        IN  (h.ep = "POST /v1/images/generations" /\ h.pc = "done" /\ h.status = 200) =>
              /\ h.results = (IF h.n < 0 THEN 0 ELSE Min(h.n, 4))
              /\ ~h.noUrl

\* C38: POST /session sets one token per request: a body with a (non-empty)
\* token sets the access token to it and leaves the exchange token alone,
\* whatever chatToken the body carries; a body with a chatToken and no token
\* sets the exchange token and leaves the access token alone; a body with
\* neither is answered 400 with the record and the cache file unchanged; and
\* the write that follows changes no token.
C38_OneTokenPerRequest ==
    [][\A c \in Clients :
         /\ (handler[c].pc = "idle" /\ handler'[c].ep = "POST /session") =>
              LET h == handler'[c]
              IN  /\ ~Falsy(h.token) =>
                        (sessionToken' = h.token /\ chatToken' = chatToken /\ h.pc = "write")
                  /\ (Falsy(h.token) /\ ~Falsy(h.chat)) =>
                        (chatToken' = h.chat /\ sessionToken' = sessionToken /\ h.pc = "write")
                  /\ (Falsy(h.token) /\ Falsy(h.chat)) =>
                        (h.pc = "done" /\ h.status = 400 /\ memory' = memory)
         /\ (handler[c].ep = "POST /session" /\ handler[c].pc = "write") =>
              (sessionToken' = sessionToken /\ chatToken' = chatToken)]_vars

\* C38 witness: a body with both fields has been answered 200; the access token
\* is the body's, and there is still no exchange token.
C38_Witness ==
    \E c \in Clients :
        /\ handler[c].ep = "POST /session"
        /\ handler[c].pc = "done"
        /\ handler[c].status = 200
        /\ handler[c].token = T2
        /\ handler[c].chat = CT
        /\ sessionToken = T2
        /\ chatToken = NULL

Generating(h) == h.pc \in {"status", "generateAndSend"}

\* C35: no two generateAndSend calls run for the same request id: a ratio
\* callback that comes while the generation of its request is running starts
\* nothing.
C35_AtMostOneGeneration ==
    \A c, d \in Clients :
        (c # d /\ Generating(handler[c]) /\ Generating(handler[d])) =>
            handler[c].requestId # handler[d].requestId

\* C36: a cancel callback leaves no entry under its request id; a quality or
\* ratio callback whose request id has no entry when it comes is answered as
\* expired and starts no generation; and only /imagine adds entries, so that
\* nothing but a new /imagine under the same id brings the entry back.
C36_CancelledIsExpired ==
    /\ [](\A c \in Clients :
            LET h == handler[c]
            IN  (h.pc # "idle" /\ h.data[1] \in {"model", "ratio"} /\ ~h.wasPending) =>
                  /\ h.pc = "done"
                  /\ h.answer = "Request expired"
                  /\ h.generation = NoGeneration)
    /\ [][\A c \in Clients :
            (handler[c].pc = "idle" /\ handler'[c].pc # "idle"
                /\ handler'[c].data[1] = "cancel") =>
               /\ ~MapHas(pendingGenerations', RequestIdIn(handler'[c].data))
               /\ handler'[c].answer = "Cancelled"]_vars
    /\ [][(DOMAIN pendingGenerations' \ DOMAIN pendingGenerations # {}) =>
             handler' = handler]_vars

\* C36 witness: the cancel button of a pending request has been handled, and a
\* ratio callback for the same request id found no entry and was answered as
\* expired.
C36_Witness ==
    \E c, d \in Clients :
        /\ handler[c].pc = "done"
        /\ handler[c].data[1] = "cancel"
        /\ handler[c].own
        /\ handler[c].wasPending
        /\ handler[d].pc = "done"
        /\ handler[d].data[1] = "ratio"
        /\ RequestIdIn(handler[d].data) = RequestIdIn(handler[c].data)
        /\ ~handler[d].wasPending
        /\ handler[d].answer = "Request expired"
        /\ ~MapHas(pendingGenerations, RequestIdIn(handler[c].data))

-----------------------------------------------------------------------------
(* POST /session requests that overlap: each sets its token and takes the   *)
(* data of its write before the write of the other has finished.            *)

InitWrites ==
    /\ sessionToken \in {NULL, T1}
    /\ chatToken = NULL
    /\ cacheFile = CacheOk(sessionToken, chatToken)
    /\ now \in {13600000}
    /\ server = "listening"
    /\ handler = [c \in Clients |-> Idle]
    /\ BotSkipped

\* POST /session taken up whatever the other handlers are doing, up to the
\* await of saveSessionToCache.
PostSessionArrives(c) ==
    /\ server = "listening"
    /\ handler[c].pc = "idle"
    /\ \E token \in {NULL, T1, T2}, chat \in {NULL, CT} :
         LET h == [Request("POST /session", BearerPrefix \o API_KEY) EXCEPT
                      !.token = token, !.chat = chat]
         IN  IF PostSessionSets(token, chat) = "token"
             THEN /\ sessionToken' = token
                  /\ UNCHANGED chatToken
                  /\ Goes(c, saveSessionToCache([h EXCEPT !.mutated = TRUE], token, chatToken))
             ELSE IF PostSessionSets(token, chat) = "chatToken"
             THEN /\ chatToken' = chat
                  /\ UNCHANGED sessionToken
                  /\ Goes(c, saveSessionToCache([h EXCEPT !.mutated = TRUE], sessionToken, chat))
             ELSE /\ UNCHANGED <<sessionToken, chatToken>>
                  /\ Goes(c, Respond(h, 400, "success.error", "Token is required"))
    /\ UNCHANGED <<cacheFile, now>>

NextWrites ==
    \E c \in Clients :
        \/ PostSessionArrives(c)
        \/ WriteFileDone(c)
        \/ Finish(c)

SpecWrites == InitWrites /\ [][NextWrites]_vars

\* C37: when the POST /session requests in hand have all been answered 200
\* (their writes have finished), the cache file holds the sessionToken and the
\* chatToken that the memory holds.
C37_CacheEqualsMemory ==
    (\A c \in Clients : /\ handler[c].ep = "POST /session"
                        /\ handler[c].pc = "done"
                        /\ handler[c].status = 200)
        => cacheFile = CacheOk(sessionToken, chatToken)

====
